---- MODULE Spec2Model ----
(***************************************************************************)
(* A model of the bootstrap container (bootstrap.go) and of its dependency *)
(* resolver (dag/graph.go, dag node).                                      *)
(*                                                                         *)
(* A reflect.Type is a capability key (a string).  A constructor is named  *)
(* by its code pointer (a string); its signature and the values it returns *)
(* are given by a fixed catalogue of constructors (the functions a caller  *)
(* could hand to Add).  A *dag.Node is identified by its position in       *)
(* b.providers, which the code only ever appends to.                       *)
(***************************************************************************)
EXTENDS Integers, Sequences, FiniteSets, TLC

\* ------------------------------------------------------------------ bounds
MaxProviders == 3   \* longest b.providers the container model builds
MaxItems == 2       \* most arguments of one Add call
MaxCalls == 4       \* most calls made on one container after New
MaxNodes == 5       \* longest node list handed to Resolve on its own
MaxRunNodes == 4    \* longest b.providers of a container that is only run
MaxRunsAlone == 2   \* most Run calls on a container that is only run
MaxThreads == 2     \* goroutines that call the container concurrently
MaxConcCalls == 4   \* most calls the goroutines make, all together
MaxWalkNodes == 4   \* longest node list whose resolution is followed call by call
MaxStack == 6       \* deepest nesting of visit calls that is followed

\* ------------------------------------------------------- types and values
ErrorType == "error"
Keys == {"ctx", "A", "B", "C"}

\* The constructors of the catalogue: provideCtx is the closure New registers.
UserFns == {"userCtx", "mkA", "nilA", "mkB", "mkC", "cycA", "selfC", "dupC", "midBC"}
\* Constructors handed only to containers that are resolved and run as
\* registered: ctxB takes the context and closes a cycle with cycA, mkAB
\* returns two values that both have a release action.
ResolveFns == {"ctxB", "mkAB"}
Fns == {"provideCtx"} \cup UserFns \cup ResolveFns

\* typ.In(i), i = 0..NumIn-1, of a catalogue constructor
FnIn(f) ==
    CASE f = "mkB" -> <<"A">>
      [] f = "mkC" -> <<"A", "B">>
      [] f = "cycA" -> <<"B">>
      [] f = "selfC" -> <<"C">>
      [] f = "midBC" -> <<"ctx">>
      [] f = "ctxB" -> <<"ctx", "A">>
      [] OTHER -> <<>>

\* typ.Out(i), i = 0..NumOut-1, of a catalogue constructor
FnOut(f) ==
    CASE f = "provideCtx" -> <<"ctx">>
      [] f = "userCtx" -> <<"ctx">>
      [] f = "mkA" -> <<"A">>
      [] f = "nilA" -> <<"A", ErrorType>>
      [] f = "mkB" -> <<"B", ErrorType>>
      [] f = "mkC" -> <<ErrorType, "C">>
      [] f = "cycA" -> <<"A">>
      [] f = "selfC" -> <<"C">>
      [] f = "dupC" -> <<"C", "C">>
      [] f = "midBC" -> <<"B", ErrorType, "C">>
      [] f = "ctxB" -> <<"B">>
      [] f = "mkAB" -> <<"A", "B">>
      [] OTHER -> <<>>

\* The return slots in which a catalogue constructor hands back a nil pointer.
NilSlots(f) ==
    CASE f = "nilA" -> {1}
      [] f = "midBC" -> {3}
      [] OTHER -> {}

\* The keys whose values implement Cleanable, and those whose Cleanup fails.
CleanableKeys == {"A", "B"}
FailingKeys == {"B"}

\* The synthetic functions reflect.MakeFunc builds share one code pointer.
MakeFuncStub == "reflect.makeFuncStub"

\* ------------------------------------------------------------- dag.NewNode
RECURSIVE ErrorIndicesFrom(_, _)
ErrorIndicesFrom(outs, i) ==
    IF i > Len(outs) THEN <<>>
    ELSE (IF outs[i] = ErrorType THEN <<i>> ELSE <<>>) \o ErrorIndicesFrom(outs, i + 1)

RECURSIVE OutputsFrom(_, _)
OutputsFrom(outs, i) ==
    IF i > Len(outs) THEN <<>>
    ELSE (IF outs[i] = ErrorType THEN <<>> ELSE <<outs[i]>>) \o OutputsFrom(outs, i + 1)

\* NewNode of a function value with code pointer fn, parameters ins, returns outs.
\* target is the variable a synthetic function writes ("" for a constructor).
NewNode(fn, ins, outs, target) ==
    [Fn |-> fn, Inputs |-> ins, Outputs |-> OutputsFrom(outs, 1),
     ErrorIndices |-> ErrorIndicesFrom(outs, 1), NumOut |-> Len(outs),
     Target |-> target]

FnNode(f) == NewNode(f, FnIn(f), FnOut(f), "")

\* runtime.FuncForPC(n.Fn.Pointer()).Name()
nodeLabel(n) == n.Fn

\* ------------------------------------------------------------------ errors
Error(kind, key, labels, why, slot, gen) ==
    [kind |-> kind, key |-> key, labels |-> labels, why |-> why, slot |-> slot, gen |-> gen]
NoError == Error("nil", "", <<>>, "", 0, 0)
\* "duplicate provider for type %v: %s and %s"
DuplicateProvider(out, existing, n) ==
    Error("duplicate provider", out, <<nodeLabel(existing), nodeLabel(n)>>, "", 0, 0)
\* "missing dependency for type %v in %s"
MissingDependency(in, n) ==
    Error("missing dependency", in, <<nodeLabel(n)>>, "", 0, 0)
\* "cyclic dependence: " + strings.Join(parts, " -> ")
CyclicDependence(nodes, cycleNodes) ==
    Error("cyclic dependence", "",
          [i \in 1..Len(cycleNodes) |-> nodeLabel(nodes[cycleNodes[i]])], "", 0, 0)
\* the errors of add: "argument must ...", "... embeds bootstrap.Inject ..."
RegistrationError(why) == Error("registration", "", <<>>, why, 0, 0)
\* "internal error: missing value for type %v"
InternalError(in) == Error("internal error", in, <<>>, "", 0, 0)
\* The error value constructor fn returned in return slot `slot` during run `gen`.
ConstructorError(fn, slot, gen) == Error("constructor", "", <<fn>>, "", slot, gen)

\* ------------------------------------------------------------- dag.Resolve
\* Nodes are named by their index in `nodes`; 0 stands for "no entry".

\* Step 1: map outputs to producers (node i, output j onwards).
RECURSIVE MapProducers(_, _, _, _)
\* (a variant that lets a later producer replace an earlier one)
RECURSIVE MapProducersLastWins(_, _, _, _)
MapProducersLastWins(nodes, i, j, producers) ==
    IF i > Len(nodes) THEN [producers |-> producers, err |-> NoError]
    ELSE IF j > Len(nodes[i].Outputs) THEN MapProducersLastWins(nodes, i + 1, 1, producers)
    ELSE MapProducersLastWins(nodes, i, j + 1,
                              [producers EXCEPT ![nodes[i].Outputs[j]] = i])

MapProducers(nodes, i, j, producers) ==
    IF i > Len(nodes) THEN [producers |-> producers, err |-> NoError]
    ELSE IF j > Len(nodes[i].Outputs) THEN MapProducers(nodes, i + 1, 1, producers)
    ELSE LET out == nodes[i].Outputs[j]
         IN  IF producers[out] # 0
             THEN [producers |-> producers,
                   err |-> DuplicateProvider(out, nodes[producers[out]], nodes[i])]
             ELSE MapProducers(nodes, i, j + 1, [producers EXCEPT ![out] = i])

\* Step 2: build the dependency lists (node i, input j onwards).
RECURSIVE BuildDeps(_, _, _, _, _)
\* (a variant that reports the last input without a producer, not the first)
RECURSIVE BuildDepsLastMissing(_, _, _, _, _)
BuildDepsLastMissing(nodes, i, j, producers, deps) ==
    IF i > Len(nodes) THEN [deps |-> deps, err |-> NoError]
    ELSE IF j > Len(nodes[i].Inputs)
    THEN BuildDepsLastMissing(nodes, i + 1, 1, producers, deps)
    ELSE LET in == nodes[i].Inputs[j]
             rest == BuildDepsLastMissing(nodes, i, j + 1, producers,
                         IF in \in DOMAIN producers /\ producers[in] # 0
                         THEN [deps EXCEPT ![i] = Append(@, producers[in])] ELSE deps)
         IN  IF rest.err # NoError \/ (in \in DOMAIN producers /\ producers[in] # 0)
             THEN rest
             ELSE [deps |-> deps, err |-> MissingDependency(in, nodes[i])]

BuildDeps(nodes, i, j, producers, deps) ==
    IF i > Len(nodes) THEN [deps |-> deps, err |-> NoError]
    ELSE IF j > Len(nodes[i].Inputs) THEN BuildDeps(nodes, i + 1, 1, producers, deps)
    ELSE LET in == nodes[i].Inputs[j]
         IN  IF in \in DOMAIN producers /\ producers[in] # 0
             THEN BuildDeps(nodes, i, j + 1, producers,
                            [deps EXCEPT ![i] = Append(@, producers[in])])
             ELSE [deps |-> deps, err |-> MissingDependency(in, nodes[i])]

\* checkCycles: the DFS state is visited, inStack (-1: not on the path), stack.
RECURSIVE CycleVisit(_, _, _, _)
RECURSIVE CycleVisitDeps(_, _, _, _, _)
\* (a variant whose cycle path leaves out the closing node)
CycleVisitOpenPath(nodes, deps, n, st) ==
    IF st.inStack[n] # -1
    THEN LET idx == st.inStack[n]
             cycleNodes == SubSeq(st.stack, idx + 1, Len(st.stack))
         IN  [st EXCEPT !.err = CyclicDependence(nodes, cycleNodes)]
    ELSE IF n \in st.visited THEN st
    ELSE LET pushed == [st EXCEPT !.inStack[n] = Len(st.stack), !.stack = Append(@, n)]
             after == CycleVisitDeps(nodes, deps, n, 1, pushed)
         IN  IF after.err # NoError THEN after
             ELSE [after EXCEPT !.stack = SubSeq(@, 1, Len(@) - 1),
                                !.inStack[n] = -1,
                                !.visited = @ \cup {n}]

\* (a variant that leaves a fully explored node on the path)
CycleVisitNoPop(nodes, deps, n, st) ==
    IF st.inStack[n] # -1
    THEN LET idx == st.inStack[n]
             cycleNodes == Append(SubSeq(st.stack, idx + 1, Len(st.stack)), n)
         IN  [st EXCEPT !.err = CyclicDependence(nodes, cycleNodes)]
    ELSE IF n \in st.visited THEN st
    ELSE LET pushed == [st EXCEPT !.inStack[n] = Len(st.stack), !.stack = Append(@, n)]
             after == CycleVisitDeps(nodes, deps, n, 1, pushed)
         IN  IF after.err # NoError THEN after
             ELSE [after EXCEPT !.visited = @ \cup {n}]

CycleVisit(nodes, deps, n, st) ==
    IF st.inStack[n] # -1
    THEN LET idx == st.inStack[n]
             cycleNodes == Append(SubSeq(st.stack, idx + 1, Len(st.stack)), n)
         IN  [st EXCEPT !.err = CyclicDependence(nodes, cycleNodes)]
    ELSE IF n \in st.visited THEN st
    ELSE LET pushed == [st EXCEPT !.inStack[n] = Len(st.stack), !.stack = Append(@, n)]
             after == CycleVisitDeps(nodes, deps, n, 1, pushed)
         IN  IF after.err # NoError THEN after
             ELSE [after EXCEPT !.stack = SubSeq(@, 1, Len(@) - 1),
                                !.inStack[n] = -1,
                                !.visited = @ \cup {n}]

CycleVisitDeps(nodes, deps, n, k, st) ==
    IF k > Len(deps[n]) THEN st
    ELSE LET after == CycleVisit(nodes, deps, deps[n][k], st)
         IN  IF after.err # NoError THEN after
             ELSE CycleVisitDeps(nodes, deps, n, k + 1, after)

RECURSIVE CheckCyclesFrom(_, _, _, _)
CheckCyclesFrom(nodes, deps, i, st) ==
    IF i > Len(nodes) THEN st
    ELSE IF i \in st.visited THEN CheckCyclesFrom(nodes, deps, i + 1, st)
    ELSE LET after == CycleVisit(nodes, deps, i, st)
         IN  IF after.err # NoError THEN after
             ELSE CheckCyclesFrom(nodes, deps, i + 1, after)

checkCycles(nodes, deps) ==
    CheckCyclesFrom(nodes, deps, 1,
        [visited |-> {}, inStack |-> [n \in 1..Len(nodes) |-> -1],
         stack |-> <<>>, err |-> NoError]).err

\* topologicalSort's visit: post-order, dependencies first.
RECURSIVE SortVisit(_, _, _)
RECURSIVE SortVisitDeps(_, _, _, _)
\* (a variant that appends the node before its dependencies: pre-order)
SortVisitPreOrder(deps, n, st) ==
    IF n \in st.visited THEN st
    ELSE SortVisitDeps(deps, n, 1,
             [visited |-> st.visited \cup {n}, sorted |-> Append(st.sorted, n)])

\* (a variant that visits a node again each time it is reached)
SortVisitRevisit(deps, n, st) ==
    LET after == SortVisitDeps(deps, n, 1, st)
    IN  [visited |-> after.visited \cup {n}, sorted |-> Append(after.sorted, n)]

SortVisit(deps, n, st) ==
    IF n \in st.visited THEN st
    ELSE LET after == SortVisitDeps(deps, n, 1, st)
         IN  [visited |-> after.visited \cup {n}, sorted |-> Append(after.sorted, n)]

SortVisitDeps(deps, n, k, st) ==
    IF k > Len(deps[n]) THEN st
    ELSE SortVisitDeps(deps, n, k + 1, SortVisit(deps, deps[n][k], st))

\* (a variant of the outer loop that starts from the node registered last)
RECURSIVE SortFromBackwards(_, _, _, _)
SortFromBackwards(nodes, deps, i, st) ==
    IF i > Len(nodes) THEN st
    ELSE LET n == Len(nodes) + 1 - i
         IN  IF n \in st.visited THEN SortFromBackwards(nodes, deps, i + 1, st)
             ELSE SortFromBackwards(nodes, deps, i + 1, SortVisit(deps, n, st))

RECURSIVE SortFrom(_, _, _, _)
SortFrom(nodes, deps, i, st) ==
    IF i > Len(nodes) THEN st
    ELSE IF i \in st.visited THEN SortFrom(nodes, deps, i + 1, st)
    ELSE SortFrom(nodes, deps, i + 1, SortVisit(deps, i, st))

topologicalSort(nodes, deps) ==
    LET err == checkCycles(nodes, deps)
    IN  IF err # NoError THEN [sorted |-> <<>>, err |-> err]
        ELSE [sorted |-> SortFrom(nodes, deps, 1, [visited |-> {}, sorted |-> <<>>]).sorted,
              err |-> NoError]

\* (a variant that looks for inputs without a producer before duplicates)
ResolveMissingFirst(nodes) ==
    LET all == MapProducersLastWins(nodes, 1, 1, [k \in Keys |-> 0])
        built == BuildDeps(nodes, 1, 1, all.producers, [n \in 1..Len(nodes) |-> <<>>])
        mapped == MapProducers(nodes, 1, 1, [k \in Keys |-> 0])
    IN  IF built.err # NoError THEN [sorted |-> <<>>, err |-> built.err]
        ELSE IF mapped.err # NoError THEN [sorted |-> <<>>, err |-> mapped.err]
        ELSE topologicalSort(nodes, built.deps)

\* (a variant that checks the graph but returns the nodes as registered)
ResolveUnsorted(nodes) ==
    LET mapped == MapProducers(nodes, 1, 1, [k \in Keys |-> 0])
    IN  IF mapped.err # NoError THEN [sorted |-> <<>>, err |-> mapped.err]
        ELSE LET built == BuildDeps(nodes, 1, 1, mapped.producers,
                                    [n \in 1..Len(nodes) |-> <<>>])
             IN  IF built.err # NoError THEN [sorted |-> <<>>, err |-> built.err]
                 ELSE IF topologicalSort(nodes, built.deps).err # NoError
                 THEN topologicalSort(nodes, built.deps)
                 ELSE [sorted |-> [i \in 1..Len(nodes) |-> i], err |-> NoError]

Resolve(nodes) ==
    LET mapped == MapProducers(nodes, 1, 1, [k \in Keys |-> 0])
    IN  IF mapped.err # NoError THEN [sorted |-> <<>>, err |-> mapped.err]
        ELSE LET built == BuildDeps(nodes, 1, 1, mapped.producers,
                                    [n \in 1..Len(nodes) |-> <<>>])
             IN  IF built.err # NoError THEN [sorted |-> <<>>, err |-> built.err]
                 ELSE topologicalSort(nodes, built.deps)

\* ------------------------------------------------------- container state
VARIABLES
    providers,   \* b.providers: the registered nodes, in registration order
    values,      \* b.values: capability key -> cached value (NoValue: no entry)
    cleanups,    \* b.cleanups: the values whose Cleanup method was appended
    functions,   \* b.functions: the code pointers already registered
    ctx,         \* b.ctx, and the context b.cancel cancels
    err,         \* b.err: the first error met by Add
    parent,      \* context -> the context it was derived from (0: Background)
    cancelled,   \* the contexts whose cancel function was called
    targets,     \* the variables and struct fields synthetic functions write
    calls,       \* the number of calls made on the container so far
    runs,        \* the number of Run calls so far
    last,        \* the last call made on the container
    sorted,      \* the order dag.Resolve returned to the last Run
    invoked,     \* the constructor calls of the last Run, in order
    runErr,      \* what the last Run returned
    released,    \* the Cleanup methods the last Cleanup called, in order
    cleanupErrs, \* the errs the last Cleanup collected
    allReleased, \* every Cleanup method call so far, in order
    repeats,     \* the functions Add was handed again after registering them
    conc,        \* b.mu and, per goroutine, the call it is making and how far it got
    walk         \* a call of dag.Resolve in progress: its position and local variables

vars == <<providers, values, cleanups, functions, ctx, err, parent, cancelled, targets,
          calls, runs, last, sorted, invoked, runErr, released, cleanupErrs, allReleased,
          repeats, conc, walk>>

\* The value returned in return slot `slot` of fn by the ord-th call of run
\* `gen`; c is the context it is (0 when it is no context of the container).
Value(fn, slot, gen, ord, isNil, c) ==
    [fn |-> fn, slot |-> slot, gen |-> gen, ord |-> ord, isNil |-> isNil, ctx |-> c]
NoValue == Value("", 0, 0, 0, TRUE, 0)
KeyOf(v) == FnOut(v.fn)[v.slot]

\* res.Interface().(Cleanable) of a non-nil result
IsCleanable(v) == KeyOf(v) \in CleanableKeys
\* cleanable.Cleanup() returns a non-nil error
CleanupFails(v) == KeyOf(v) \in FailingKeys

\* The variables population targets point at, and the type each holds.
TargetVars == {"varA", "ni"}
TargetFields(t) ==
    CASE t = "varA" -> <<"A">>
      [] t = "ni" -> <<"A", "B">>

\* The return slots of the catalogue that can hold an error, as <<fn, slot>>.
ErrorSlots ==
    UNION {{<<f, i>> : i \in {x \in 1..Len(FnOut(f)) : FnOut(f)[x] = ErrorType}} : f \in UserFns}

\* p.Fn.Call(args): the results of the ord-th call of run gen, one per return
\* slot.  `bad` is the set of error slots that return a non-nil error in this run.
Call(p, args, bad, gen, ord, cur) ==
    [i \in 1..p.NumOut |->
        IF FnOut(p.Fn)[i] = ErrorType
        THEN [isErr |-> TRUE, val |-> NoValue,
              err |-> IF <<p.Fn, i>> \in bad THEN ConstructorError(p.Fn, i, gen) ELSE NoError]
        ELSE [isErr |-> FALSE,
              val |-> Value(p.Fn, i, gen, ord, i \in NilSlots(p.Fn),
                            IF p.Fn = "provideCtx" THEN cur ELSE 0),
              err |-> NoError]]

\* The first non-nil error among the error slots, in ErrorIndices order.
RECURSIVE FirstError(_, _, _)
\* (a variant that looks at the last return slot only)
FirstErrorLastSlotOnly(p, results, k) ==
    IF Len(results) > 0 /\ results[Len(results)].isErr
    THEN results[Len(results)].err ELSE NoError

FirstError(p, results, k) ==
    IF k > Len(p.ErrorIndices) THEN NoError
    ELSE IF results[p.ErrorIndices[k]].err # NoError THEN results[p.ErrorIndices[k]].err
    ELSE FirstError(p, results, k + 1)

\* The loop that stores results (result i onwards, next output outputIdx).
RECURSIVE StoreResults(_, _, _, _, _)
\* (a variant that appends the cleanups but never writes the cache)
RECURSIVE StoreResultsNoCache(_, _, _, _, _)
StoreResultsNoCache(p, results, i, outputIdx, es) ==
    IF i > Len(results) THEN es
    ELSE IF results[i].isErr THEN StoreResultsNoCache(p, results, i + 1, outputIdx, es)
    ELSE IF outputIdx <= Len(p.Outputs)
    THEN LET res == results[i].val
         IN  StoreResultsNoCache(p, results, i + 1, outputIdx + 1,
                 IF ~res.isNil /\ IsCleanable(res)
                 THEN [es EXCEPT !.cleanups = Append(@, res)]
                 ELSE es)
    ELSE StoreResultsNoCache(p, results, i + 1, outputIdx, es)

\* (a variant that registers the release action of a nil value too)
RECURSIVE StoreResultsNilRegistered(_, _, _, _, _)
StoreResultsNilRegistered(p, results, i, outputIdx, es) ==
    IF i > Len(results) THEN es
    ELSE IF results[i].isErr THEN StoreResultsNilRegistered(p, results, i + 1, outputIdx, es)
    ELSE IF outputIdx <= Len(p.Outputs)
    THEN LET res == results[i].val
             stored == [es EXCEPT !.values[p.Outputs[outputIdx]] = res]
         IN  StoreResultsNilRegistered(p, results, i + 1, outputIdx + 1,
                 IF IsCleanable(res)
                 THEN [stored EXCEPT !.cleanups = Append(@, res)]
                 ELSE stored)
    ELSE StoreResultsNilRegistered(p, results, i + 1, outputIdx, es)

StoreResults(p, results, i, outputIdx, es) ==
    IF i > Len(results) THEN es
    ELSE IF results[i].isErr THEN StoreResults(p, results, i + 1, outputIdx, es)
    ELSE IF outputIdx <= Len(p.Outputs)
    THEN LET outType == p.Outputs[outputIdx]
             res == results[i].val
             stored == [es EXCEPT !.values[outType] = res]
         IN  StoreResults(p, results, i + 1, outputIdx + 1,
                 IF ~res.isNil /\ IsCleanable(res)
                 THEN [stored EXCEPT !.cleanups = Append(@, res)]
                 ELSE stored)
    ELSE StoreResults(p, results, i + 1, outputIdx, es)

\* The first input of p with no entry in the cache ("" when every input has one).
RECURSIVE MissingValue(_, _, _)
MissingValue(p, vals, i) ==
    IF i > Len(p.Inputs) THEN ""
    ELSE IF vals[p.Inputs[i]] = NoValue THEN p.Inputs[i]
    ELSE MissingValue(p, vals, i + 1)

\* (a variant of execute that skips a node whose outputs are all in the cache)
executeSkipCached(n, p, es, bad, gen, cur) ==
    LET miss == MissingValue(p, es.values, 1)
    IN  IF miss # "" THEN [es EXCEPT !.err = InternalError(miss)]
        ELSE IF p.Outputs # <<>> /\ \A o \in 1..Len(p.Outputs) : es.values[p.Outputs[o]] # NoValue
        THEN es
        ELSE LET args == [i \in 1..Len(p.Inputs) |-> es.values[p.Inputs[i]]]
                 results == Call(p, args, bad, gen, Len(es.invoked) + 1, cur)
                 called == [es EXCEPT
                              !.invoked = Append(@, [node |-> n, args |-> args,
                                                     results |-> results]),
                              !.targets = IF p.Target = "" THEN @
                                          ELSE [@ EXCEPT ![p.Target] = args]]
                 failed == FirstError(p, results, 1)
             IN  IF failed # NoError THEN [called EXCEPT !.err = failed]
                 ELSE StoreResults(p, results, 1, 1, called)

\* (a variant of execute that stores the results before it looks at the errors)
executeStoreFirst(n, p, es, bad, gen, cur) ==
    LET miss == MissingValue(p, es.values, 1)
    IN  IF miss # "" THEN [es EXCEPT !.err = InternalError(miss)]
        ELSE LET args == [i \in 1..Len(p.Inputs) |-> es.values[p.Inputs[i]]]
                 results == Call(p, args, bad, gen, Len(es.invoked) + 1, cur)
                 called == [es EXCEPT
                              !.invoked = Append(@, [node |-> n, args |-> args,
                                                     results |-> results]),
                              !.targets = IF p.Target = "" THEN @
                                          ELSE [@ EXCEPT ![p.Target] = args]]
                 failed == FirstError(p, results, 1)
             IN  [StoreResults(p, results, 1, 1, called) EXCEPT !.err = failed]

\* b.execute(p) for the node at index n of b.providers.  es carries b.values,
\* b.cleanups, the targets, the calls made so far and the error returned.
execute(n, p, es, bad, gen, cur) ==
    LET miss == MissingValue(p, es.values, 1)
    IN  IF miss # "" THEN [es EXCEPT !.err = InternalError(miss)]
        ELSE LET args == [i \in 1..Len(p.Inputs) |-> es.values[p.Inputs[i]]]
                 results == Call(p, args, bad, gen, Len(es.invoked) + 1, cur)
                 called == [es EXCEPT
                              !.invoked = Append(@, [node |-> n, args |-> args,
                                                     results |-> results]),
                              !.targets = IF p.Target = "" THEN @
                                          ELSE [@ EXCEPT ![p.Target] = args]]
                 failed == FirstError(p, results, 1)
             IN  IF failed # NoError THEN [called EXCEPT !.err = failed]
                 ELSE StoreResults(p, results, 1, 1, called)

\* The loop of Run over the sorted nodes (position k onwards).
RECURSIVE ExecuteAll(_, _, _, _, _, _, _)
\* (a variant that drops the cleanups of a Run that fails)
RECURSIVE ExecuteAllRollback(_, _, _, _, _, _, _)
ExecuteAllRollback(nodes, order, k, es, bad, gen, cur) ==
    IF k > Len(order) THEN es
    ELSE LET after == execute(order[k], nodes[order[k]], es, bad, gen, cur)
         IN  IF after.err # NoError
             THEN [after EXCEPT !.cleanups = SelectSeq(@, LAMBDA v : v.gen < gen)]
             ELSE ExecuteAllRollback(nodes, order, k + 1, after, bad, gen, cur)

ExecuteAll(nodes, order, k, es, bad, gen, cur) ==
    IF k > Len(order) THEN es
    ELSE LET after == execute(order[k], nodes[order[k]], es, bad, gen, cur)
         IN  IF after.err # NoError THEN after
             ELSE ExecuteAll(nodes, order, k + 1, after, bad, gen, cur)

\* ------------------------------------------------------------ registration
\* What a caller can hand to Add.
FuncItems == [kind : {"func"}, name : UserFns]
\* a function with a parameter, or a result, whose struct type embeds Inject
InjectFuncItems == [kind : {"func"}, name : {"returnsInject"}]
\* a pointer to a variable, or to a struct that embeds Inject ("ni")
PointerItems == [kind : {"ptr"}, name : TargetVars]
\* a typed nil pointer; a value that is neither a function nor a pointer
BadItems == [kind : {"nilptr", "other"}, name : {""}]
Items == FuncItems \cup InjectFuncItems \cup PointerItems \cup BadItems

\* hasInject(elemType) for the pointee of a pointer item
hasInject(t) == t = "ni"

\* checkInjectInTypes over the inputs, then over the outputs
checkInject(f) == IF f = "returnsInject"
                  THEN RegistrationError("embeds bootstrap.Inject") ELSE NoError

\* The registration state add works on: b.providers, b.functions, and the
\* error add returned (and the functions found to be registered already).
\* (a variant of registerProvider without the check of b.functions)
registerProviderNoDedup(f, rs) ==
    IF checkInject(f) # NoError THEN [rs EXCEPT !.err = checkInject(f)]
    ELSE [rs EXCEPT !.functions = @ \cup {f},
                    !.providers = Append(@, FnNode(f)),
                    !.repeats = IF f \in rs.functions THEN @ \cup {f} ELSE @]

registerProvider(f, rs) ==
    IF checkInject(f) # NoError THEN [rs EXCEPT !.err = checkInject(f)]
    ELSE IF f \in rs.functions THEN [rs EXCEPT !.repeats = @ \cup {f}]
    ELSE [rs EXCEPT !.functions = @ \cup {f},
                    !.providers = Append(@, FnNode(f))]

\* (a variant whose synthetic function takes no parameter)
registerTargetPopulatorNoInput(t, rs) ==
    [rs EXCEPT !.providers = Append(@, NewNode(MakeFuncStub, <<>>, <<>>, t))]

registerTargetPopulator(t, rs) ==
    [rs EXCEPT !.providers = Append(@, NewNode(MakeFuncStub, TargetFields(t), <<>>, t))]

registerStructInjector(t, rs) ==
    [rs EXCEPT !.providers = Append(@, NewNode(MakeFuncStub, TargetFields(t), <<>>, t))]

add(item, rs) ==
    CASE item.kind = "func" -> registerProvider(item.name, rs)
      [] item.kind = "nilptr" -> [rs EXCEPT !.err = RegistrationError("argument must not be nil")]
      [] item.kind = "ptr" -> IF hasInject(item.name) THEN registerStructInjector(item.name, rs)
                              ELSE registerTargetPopulator(item.name, rs)
      [] OTHER -> [rs EXCEPT !.err = RegistrationError("argument must be a function or pointer")]

\* The loop of Add over its arguments (argument i onwards); `failed` is the
\* index of the argument whose registration failed (0: none).
RECURSIVE AddAll(_, _, _)
AddAll(items, i, rs) ==
    IF i > Len(items) THEN rs
    ELSE LET after == add(items[i], rs)
         IN  IF after.err # NoError THEN [after EXCEPT !.failed = i]
             ELSE AddAll(items, i + 1, after)

\* (a variant of Add without the check of b.err)
AddResultNotSticky(items) ==
    LET rs == [providers |-> providers, functions |-> functions, err |-> NoError,
               failed |-> 0, repeats |-> repeats]
        res == AddAll(items, 1, rs)
    IN  IF res.err = NoError THEN [res EXCEPT !.err = err] ELSE res

AddResult(items) ==
    LET rs == [providers |-> providers, functions |-> functions, err |-> NoError,
               failed |-> 0, repeats |-> repeats]
    IN  IF err # NoError THEN [rs EXCEPT !.err = err] ELSE AddAll(items, 1, rs)

ApiCall(op, n, failed, skipped) == [op |-> op, n |-> n, failed |-> failed, skipped |-> skipped]

\* -------------------------------------------------------------- goroutines
Threads == 1..MaxThreads

\* The fields of the container a call reads or writes, as they are now.
SnapNow ==
    [providers |-> providers, values |-> values, cleanups |-> cleanups,
     functions |-> functions, ctx |-> ctx, err |-> err, parent |-> parent,
     cancelled |-> cancelled, targets |-> targets, runs |-> runs, repeats |-> repeats,
     allReleased |-> allReleased]
NoSnap ==
    [providers |-> <<>>, values |-> [k \in Keys |-> NoValue], cleanups |-> <<>>,
     functions |-> {}, ctx |-> 0, err |-> NoError, parent |-> <<>>,
     cancelled |-> {}, targets |-> [t \in TargetVars |-> <<>>], runs |-> 0, repeats |-> {},
     allReleased |-> <<>>]

\* A goroutine: where it is (pc), the call it makes (name and arguments), the
\* loop index i, the order Resolve returned to its Run, and the fields of the
\* container as they were when it took the lock.
Idle ==
    [pc |-> "idle", name |-> "", items |-> <<>>, bad |-> {}, c |-> 0, i |-> 0,
     order |-> <<>>, snap |-> NoSnap]
\* b.mu is free (holder 0) and no goroutine is in a call
NoCalls == [mu |-> 0, th |-> [t \in Threads |-> Idle]]

\* ------------------------------------------------------------------ actions
\* New(): the empty container, its context (1, derived from Background) and
\* the default context provider.
\* No call of dag.Resolve is being followed.
NoWalk == [pc |-> "idle", i |-> 0, stack |-> <<>>, visited |-> {}, sorted |-> <<>>,
           err |-> NoError]

Init ==
    /\ providers = <<FnNode("provideCtx")>>
    /\ functions = {"provideCtx"}
    /\ values = [k \in Keys |-> NoValue]
    /\ cleanups = <<>>
    /\ ctx = 1
    /\ parent = <<0>>
    /\ cancelled = {}
    /\ err = NoError
    /\ targets = [t \in TargetVars |-> <<>>]
    /\ calls = 0
    /\ runs = 0
    /\ last = ApiCall("New", 0, 0, FALSE)
    /\ sorted = <<>>
    /\ invoked = <<>>
    /\ runErr = NoError
    /\ released = <<>>
    /\ cleanupErrs = <<>>
    /\ allReleased = <<>>
    /\ repeats = {}
    /\ conc = NoCalls
    /\ walk = NoWalk

\* b.Add(items...)
Add(items) ==
    LET res == AddResult(items)
    IN  /\ calls < MaxCalls
        /\ Len(res.providers) <= MaxProviders
        /\ calls' = calls + 1
        /\ providers' = res.providers
        /\ functions' = res.functions
        /\ err' = res.err
        /\ repeats' = res.repeats
        /\ last' = ApiCall("Add", Len(items), res.failed, err # NoError)
        /\ UNCHANGED <<values, cleanups, ctx, parent, cancelled, targets, runs,
                       sorted, invoked, runErr, released, cleanupErrs, allReleased, conc, walk>>

\* (a variant of Run that empties the value cache before it resolves)
RunFromEmptyCache(bad) ==
    /\ calls < MaxCalls
    /\ calls' = calls + 1
    /\ runs' = runs + 1
    /\ last' = ApiCall("Run", 0, 0, err # NoError)
    /\ LET es0 == [values |-> [k \in Keys |-> NoValue], cleanups |-> cleanups,
                   targets |-> targets, invoked |-> <<>>, err |-> NoError]
           resolved == Resolve(providers)
           es == IF err # NoError THEN [es0 EXCEPT !.err = err]
                 ELSE IF resolved.err # NoError THEN [es0 EXCEPT !.err = resolved.err]
                 ELSE ExecuteAll(providers, resolved.sorted, 1, es0, bad, runs + 1, ctx)
       IN  /\ sorted' = IF err # NoError THEN <<>> ELSE resolved.sorted
           /\ values' = es.values
           /\ cleanups' = es.cleanups
           /\ targets' = es.targets
           /\ invoked' = es.invoked
           /\ runErr' = es.err
    /\ UNCHANGED <<providers, functions, ctx, parent, cancelled, err,
                   released, cleanupErrs, allReleased, repeats, conc, walk>>

\* b.Run(), the error slots of `bad` returning errors
\* (a variant whose resolution starts from a different node on a later call,
\* as a traversal in map-iteration order would)
RunResolveVaries(bad) ==
    /\ calls < MaxCalls
    /\ calls' = calls + 1
    /\ runs' = runs + 1
    /\ last' = ApiCall("Run", 0, 0, err # NoError)
    /\ LET es0 == [values |-> values, cleanups |-> cleanups, targets |-> targets,
                   invoked |-> <<>>, err |-> NoError]
           first == Resolve(providers)
           mapped == MapProducers(providers, 1, 1, [k \in Keys |-> 0])
           built == BuildDeps(providers, 1, 1, mapped.producers,
                              [n \in 1..Len(providers) |-> <<>>])
           resolved == IF runs = 0 \/ first.err # NoError THEN first
                       ELSE [sorted |-> SortFromBackwards(providers, built.deps, 1,
                                            [visited |-> {}, sorted |-> <<>>]).sorted,
                             err |-> NoError]
           es == IF err # NoError THEN [es0 EXCEPT !.err = err]
                 ELSE IF resolved.err # NoError THEN [es0 EXCEPT !.err = resolved.err]
                 ELSE ExecuteAll(providers, resolved.sorted, 1, es0, bad, runs + 1, ctx)
       IN  /\ sorted' = IF err # NoError THEN <<>> ELSE resolved.sorted
           /\ values' = es.values
           /\ cleanups' = es.cleanups
           /\ targets' = es.targets
           /\ invoked' = es.invoked
           /\ runErr' = es.err
    /\ UNCHANGED <<providers, functions, ctx, parent, cancelled, err,
                   released, cleanupErrs, allReleased, repeats, conc, walk>>

Run(bad) ==
    /\ calls < MaxCalls
    /\ calls' = calls + 1
    /\ runs' = runs + 1
    /\ last' = ApiCall("Run", 0, 0, err # NoError)
    /\ LET es0 == [values |-> values, cleanups |-> cleanups, targets |-> targets,
                   invoked |-> <<>>, err |-> NoError]
           resolved == Resolve(providers)
           es == IF err # NoError THEN [es0 EXCEPT !.err = err]
                 ELSE IF resolved.err # NoError THEN [es0 EXCEPT !.err = resolved.err]
                 ELSE ExecuteAll(providers, resolved.sorted, 1, es0, bad, runs + 1, ctx)
       IN  /\ sorted' = IF err # NoError THEN <<>> ELSE resolved.sorted
           /\ values' = es.values
           /\ cleanups' = es.cleanups
           /\ targets' = es.targets
           /\ invoked' = es.invoked
           /\ runErr' = es.err
    /\ UNCHANGED <<providers, functions, ctx, parent, cancelled, err,
                   released, cleanupErrs, allReleased, repeats, conc, walk>>

\* The loop of Cleanup, from index i of b.cleanups down to the first.
RECURSIVE CleanupLoop(_, _, _, _)
\* (a variant that walks b.cleanups from the first entry up)
RECURSIVE CleanupLoopForward(_, _, _, _)
CleanupLoopForward(list, i, done, cs) ==
    IF i < 1 THEN cs
    ELSE LET x == list[Len(list) - i + 1]
         IN  CleanupLoopForward(list, i - 1, done,
                 [released |-> Append(cs.released, [value |-> x, ctxDone |-> ctx \in done]),
                  errs |-> IF CleanupFails(x) THEN Append(cs.errs, x) ELSE cs.errs])
\* (a variant that returns at the first failing Cleanup method)
RECURSIVE CleanupLoopStopOnError(_, _, _, _)
CleanupLoopStopOnError(list, i, done, cs) ==
    IF i < 1 THEN cs
    ELSE LET step == [released |-> Append(cs.released,
                                          [value |-> list[i], ctxDone |-> ctx \in done]),
                      errs |-> IF CleanupFails(list[i]) THEN Append(cs.errs, list[i])
                               ELSE cs.errs]
         IN  IF CleanupFails(list[i]) THEN step
             ELSE CleanupLoopStopOnError(list, i - 1, done, step)

CleanupLoop(list, i, done, cs) ==
    IF i < 1 THEN cs
    ELSE CleanupLoop(list, i - 1, done,
            [released |-> Append(cs.released, [value |-> list[i], ctxDone |-> ctx \in done]),
             errs |-> IF CleanupFails(list[i]) THEN Append(cs.errs, list[i]) ELSE cs.errs])

\* (a variant of Cleanup that cancels the context after the loop)
CleanupCancelsLast ==
    /\ calls < MaxCalls
    /\ calls' = calls + 1
    /\ last' = ApiCall("Cleanup", 0, 0, FALSE)
    /\ cancelled' = cancelled \cup {ctx}
    /\ LET cs == CleanupLoop(cleanups, Len(cleanups), cancelled,
                             [released |-> <<>>, errs |-> <<>>])
       IN  /\ released' = cs.released
           /\ cleanupErrs' = cs.errs
           /\ allReleased' = allReleased \o [i \in 1..Len(cs.released) |-> cs.released[i].value]
    /\ UNCHANGED <<providers, values, cleanups, functions, ctx, parent, err, targets, runs,
                   sorted, invoked, runErr, repeats, conc, walk>>

\* b.Cleanup()
Cleanup ==
    /\ calls < MaxCalls
    /\ calls' = calls + 1
    /\ last' = ApiCall("Cleanup", 0, 0, FALSE)
    /\ cancelled' = cancelled \cup {ctx}
    /\ LET cs == CleanupLoop(cleanups, Len(cleanups), cancelled \cup {ctx},
                             [released |-> <<>>, errs |-> <<>>])
       IN  /\ released' = cs.released
           /\ cleanupErrs' = cs.errs
           /\ allReleased' = allReleased \o [i \in 1..Len(cs.released) |-> cs.released[i].value]
    /\ UNCHANGED <<providers, values, cleanups, functions, ctx, parent, err, targets, runs,
                   sorted, invoked, runErr, repeats, conc, walk>>

\* What the last Cleanup returned: "cleanup errors: %v" of errs, or nil.
CleanupReturn(errs) ==
    IF Len(errs) > 0
    THEN Error("cleanup errors", "", [i \in 1..Len(errs) |-> errs[i].fn], "", 0, 0)
    ELSE NoError

\* (a variant of WithContext that calls the Cleanup methods registered so far)
WithContextReleases(c) ==
    /\ calls < MaxCalls
    /\ calls' = calls + 1
    /\ ctx' = Len(parent) + 1
    /\ parent' = Append(parent, c)
    /\ last' = ApiCall("WithContext", 0, 0, FALSE)
    /\ LET cs == CleanupLoop(cleanups, Len(cleanups), cancelled,
                             [released |-> <<>>, errs |-> <<>>])
       IN  /\ released' = cs.released
           /\ allReleased' = allReleased \o [i \in 1..Len(cs.released) |-> cs.released[i].value]
    /\ UNCHANGED <<providers, values, cleanups, functions, cancelled, err, targets, runs,
                   sorted, invoked, runErr, cleanupErrs, repeats, conc, walk>>

\* b.WithContext(c): c is Background (0) or a context the container made
WithContext(c) ==
    /\ calls < MaxCalls
    /\ calls' = calls + 1
    /\ ctx' = Len(parent) + 1
    /\ parent' = Append(parent, c)
    /\ last' = ApiCall("WithContext", 0, 0, FALSE)
    /\ UNCHANGED <<providers, values, cleanups, functions, cancelled, err, targets, runs,
                   sorted, invoked, runErr, released, cleanupErrs, allReleased, repeats, conc, walk>>

\* The error slots of the constructors in b.providers.
RegisteredErrorSlots == {fs \in ErrorSlots : \E i \in 1..Len(providers) : providers[i].Fn = fs[1]}

ItemLists == UNION {[1..n -> Items] : n \in 1..MaxItems}

Next ==
    \/ \E items \in ItemLists : Add(items)
    \/ \E bad \in SUBSET RegisteredErrorSlots : Run(bad)
    \/ Cleanup
    \/ \E c \in {0} : WithContext(c)

Spec == Init /\ [][Next]_vars

\* ------------------------------------------- dag.Resolve taken on its own
\* The nodes registration can put in b.providers after the context provider.
NodeChoices == {FnNode(f) : f \in UserFns \cup ResolveFns} \cup
               {NewNode(MakeFuncStub, TargetFields(t), <<>>, t) : t \in TargetVars}

\* The node lists of up to n nodes Add can build: the context provider first,
\* no function twice.
NodeLists(n) ==
    {<<FnNode("provideCtx")>> \o s : s \in
        {t \in UNION {[1..m -> NodeChoices] : m \in 0..(n - 1)} :
            \A i, j \in 1..Len(t) : (i # j /\ t[i].Target = "") => t[i].Fn # t[j].Fn}}

\* The errors add can leave in b.err.
RegistrationErrors ==
    {RegistrationError("argument must not be nil"),
     RegistrationError("argument must be a function or pointer"),
     RegistrationError("embeds bootstrap.Inject")}

\* The container after a series of Add calls that built `list` and left e in b.err.
Registered(list, e) ==
    /\ providers = list
    /\ functions = {list[i].Fn : i \in 1..Len(list)} \ {MakeFuncStub}
    /\ values = [k \in Keys |-> NoValue]
    /\ cleanups = <<>>
    /\ ctx = 1
    /\ parent = <<0>>
    /\ cancelled = {}
    /\ err = e
    /\ targets = [t \in TargetVars |-> <<>>]
    /\ calls = 0
    /\ runs = 0
    /\ last = ApiCall("New", 0, 0, FALSE)
    /\ sorted = <<>>
    /\ invoked = <<>>
    /\ runErr = NoError
    /\ released = <<>>
    /\ cleanupErrs = <<>>
    /\ allReleased = <<>>
    /\ repeats = {}
    /\ conc = NoCalls
    /\ walk = NoWalk

InitResolve == \E list \in NodeLists(MaxNodes) : Registered(list, NoError)

\* sorted, err := dag.Resolve(b.providers)
ResolveStep ==
    /\ last.op = "New"
    /\ last' = ApiCall("Resolve", 0, 0, FALSE)
    /\ sorted' = Resolve(providers).sorted
    /\ runErr' = Resolve(providers).err
    /\ UNCHANGED <<providers, values, cleanups, functions, ctx, err, parent, cancelled,
                   targets, calls, runs, invoked, released, cleanupErrs, allReleased,
                   repeats, conc, walk>>

SpecResolve == InitResolve /\ [][ResolveStep]_vars

\* ------------------------------------------- Run on a registered container
InitRun ==
    \E list \in NodeLists(MaxRunNodes), e \in {NoError} \cup RegistrationErrors :
        Registered(list, e)

RunAlone(bad) == runs < MaxRunsAlone /\ Run(bad)

SpecRun == InitRun /\ [][\E bad \in SUBSET RegisteredErrorSlots : RunAlone(bad)]_vars

\* --------------------------------------- dag.Resolve followed call by call
\* walk.pc is the pass Resolve is in ("check": checkCycles, "sort": the
\* ordering pass of topologicalSort, "done": Resolve returned), walk.i the
\* next node of the pass's outer loop, walk.stack the visit calls in progress
\* (node n, next dependency k), walk.visited and walk.sorted the pass's locals.
InitWalk == \E list \in NodeLists(MaxWalkNodes) : Registered(list, NoError)

\* deps as step 2 of Resolve built it
WalkDeps ==
    BuildDeps(providers, 1, 1, MapProducers(providers, 1, 1, [k \in Keys |-> 0]).producers,
              [n \in 1..Len(providers) |-> <<>>]).deps
Frame(n) == [n |-> n, k |-> 1]
Top == walk.stack[Len(walk.stack)]
Pop == SubSeq(walk.stack, 1, Len(walk.stack) - 1)
\* the stack after the top frame moved on to its next dependency
Advanced == [walk.stack EXCEPT ![Len(walk.stack)].k = @ + 1]
OnStack(m) == \E q \in 1..Len(walk.stack) : walk.stack[q].n = m
WalkFrame == UNCHANGED <<providers, values, cleanups, functions, ctx, err, parent, cancelled,
                         targets, calls, runs, last, sorted, invoked, runErr, released,
                         cleanupErrs, allReleased, repeats, conc>>

\* (a variant of Resolve's start in which topologicalSort skips checkCycles)
WalkStartNoCheck ==
    /\ walk.pc = "idle"
    /\ LET mapped == MapProducers(providers, 1, 1, [k \in Keys |-> 0])
           built == BuildDeps(providers, 1, 1, mapped.producers,
                              [n \in 1..Len(providers) |-> <<>>])
       IN  walk' = IF mapped.err # NoError THEN [NoWalk EXCEPT !.pc = "done", !.err = mapped.err]
                   ELSE IF built.err # NoError
                   THEN [NoWalk EXCEPT !.pc = "done", !.err = built.err]
                   ELSE [NoWalk EXCEPT !.pc = "sort", !.i = 1]
    /\ WalkFrame

\* Resolve's steps 1 and 2, up to the call of checkCycles
WalkStart ==
    /\ walk.pc = "idle"
    /\ LET mapped == MapProducers(providers, 1, 1, [k \in Keys |-> 0])
           built == BuildDeps(providers, 1, 1, mapped.producers,
                              [n \in 1..Len(providers) |-> <<>>])
       IN  walk' = IF mapped.err # NoError THEN [NoWalk EXCEPT !.pc = "done", !.err = mapped.err]
                   ELSE IF built.err # NoError
                   THEN [NoWalk EXCEPT !.pc = "done", !.err = built.err]
                   ELSE [NoWalk EXCEPT !.pc = "check", !.i = 1]
    /\ WalkFrame

\* one iteration of checkCycles' loop over nodes; after the last, the
\* ordering pass starts with a fresh visited map
CheckNext ==
    /\ walk.pc = "check" /\ walk.stack = <<>>
    /\ walk' = IF walk.i > Len(providers)
               THEN [walk EXCEPT !.pc = "sort", !.i = 1, !.visited = {}]
               ELSE IF walk.i \in walk.visited THEN [walk EXCEPT !.i = @ + 1]
               ELSE [walk EXCEPT !.i = @ + 1, !.stack = <<Frame(walk.i)>>]
    /\ WalkFrame

\* one iteration of the loop over deps[n] in checkCycles' visit, with the
\* entry of the visit it calls; after the last, the visit pops and returns
CheckVisit ==
    /\ walk.pc = "check" /\ walk.stack # <<>>
    /\ LET ds == WalkDeps[Top.n]
           m == ds[Top.k]
           idx == CHOOSE q \in 1..Len(walk.stack) : walk.stack[q].n = m
       IN  IF Top.k > Len(ds)
           THEN walk' = [walk EXCEPT !.stack = Pop, !.visited = @ \cup {Top.n}]
           ELSE IF OnStack(m)
           THEN walk' = [NoWalk EXCEPT
                            !.pc = "done",
                            !.err = CyclicDependence(providers,
                                        [q \in 1..(Len(walk.stack) - idx + 1) |->
                                            walk.stack[idx + q - 1].n] \o <<m>>)]
           ELSE IF m \in walk.visited THEN walk' = [walk EXCEPT !.stack = Advanced]
           ELSE /\ Len(walk.stack) < MaxStack
                /\ walk' = [walk EXCEPT !.stack = Append(Advanced, Frame(m))]
    /\ WalkFrame

\* one iteration of topologicalSort's loop over nodes; after the last,
\* Resolve returns sorted
SortNext ==
    /\ walk.pc = "sort" /\ walk.stack = <<>>
    /\ walk' = IF walk.i > Len(providers) THEN [walk EXCEPT !.pc = "done"]
               ELSE IF walk.i \in walk.visited THEN [walk EXCEPT !.i = @ + 1]
               ELSE [walk EXCEPT !.i = @ + 1, !.stack = <<Frame(walk.i)>>]
    /\ WalkFrame

\* one iteration of the loop over deps[n] in topologicalSort's visit, with
\* the entry of the visit it calls; after the last, the visit marks n
\* visited, appends it and returns
SortStep ==
    /\ walk.pc = "sort" /\ walk.stack # <<>>
    /\ LET ds == WalkDeps[Top.n]
           m == ds[Top.k]
       IN  IF Top.k > Len(ds)
           THEN walk' = [walk EXCEPT !.stack = Pop, !.visited = @ \cup {Top.n},
                                     !.sorted = Append(@, Top.n)]
           ELSE IF m \in walk.visited THEN walk' = [walk EXCEPT !.stack = Advanced]
           ELSE /\ Len(walk.stack) < MaxStack
                /\ walk' = [walk EXCEPT !.stack = Append(Advanced, Frame(m))]
    /\ WalkFrame

NextWalk == WalkStart \/ CheckNext \/ CheckVisit \/ SortNext \/ SortStep

\* Resolve runs on one goroutine, which keeps taking steps until it returns.
SpecWalk == InitWalk /\ [][NextWalk]_vars /\ WF_vars(NextWalk)

\* ------------------------------------------ concurrent calls, step by step
\* What the goroutines hand to Add, and the calls they make.
ConcItems == [kind : {"func"}, name : {"mkA", "mkB"}] \cup [kind : {"other"}, name : {""}]
ConcItemLists == UNION {[1..n -> ConcItems] : n \in 1..MaxItems}
ConcErrorSlots == {fs \in ErrorSlots : fs[1] \in {"mkA", "mkB"}}
ConcCalls ==
    [name : {"Add"}, items : ConcItemLists, bad : {{}}, c : {0}] \cup
    [name : {"Run"}, items : {<<>>}, bad : SUBSET ConcErrorSlots, c : {0}] \cup
    [name : {"Cleanup", "WithContext"}, items : {<<>>}, bad : {{}}, c : {0}]

\* goroutine t calls a method of the container and reaches b.mu.Lock()
Invoke(t, call) ==
    /\ conc.th[t].pc = "idle"
    /\ calls < MaxConcCalls
    /\ calls' = calls + 1
    /\ UNCHANGED walk
    /\ conc' = [conc EXCEPT !.th[t] = [Idle EXCEPT !.pc = "lock", !.name = call.name,
                                                   !.items = call.items, !.bad = call.bad,
                                                   !.c = call.c]]
    /\ UNCHANGED <<providers, values, cleanups, functions, ctx, err, parent, cancelled,
                   targets, runs, last, sorted, invoked, runErr, released, cleanupErrs,
                   allReleased, repeats>>

\* (a variant of Lock that does not wait for b.mu to be free)
LockNoWait(t) ==
    /\ conc.th[t].pc = "lock"
    /\ UNCHANGED walk
    /\ conc' = [conc EXCEPT !.mu = t,
                            !.th[t].pc = conc.th[t].name,
                            !.th[t].i = 1,
                            !.th[t].snap = SnapNow]
    /\ last' = ApiCall(conc.th[t].name, Len(conc.th[t].items), 0, err # NoError)
    /\ UNCHANGED <<providers, values, cleanups, functions, ctx, err, parent, cancelled,
                   targets, calls, runs, sorted, invoked, runErr, released, cleanupErrs,
                   allReleased, repeats>>

\* b.mu.Lock() returns in goroutine t
Lock(t) ==
    /\ conc.th[t].pc = "lock"
    /\ conc.mu = 0
    /\ UNCHANGED walk
    /\ conc' = [conc EXCEPT !.mu = t,
                            !.th[t].pc = conc.th[t].name,
                            !.th[t].i = 1,
                            !.th[t].snap = SnapNow]
    /\ last' = ApiCall(conc.th[t].name, Len(conc.th[t].items), 0, err # NoError)
    /\ UNCHANGED <<providers, values, cleanups, functions, ctx, err, parent, cancelled,
                   targets, calls, runs, sorted, invoked, runErr, released, cleanupErrs,
                   allReleased, repeats>>

\* Add in goroutine t: the check of b.err before the first argument, then one
\* pass of the loop over the arguments
AddStep(t) ==
    LET th == conc.th[t]
        rs == [providers |-> providers, functions |-> functions, err |-> NoError,
               failed |-> 0, repeats |-> repeats]
        after == IF th.i = 1 /\ err # NoError THEN rs ELSE add(th.items[th.i], rs)
        done == (th.i = 1 /\ err # NoError) \/ after.err # NoError \/ th.i = Len(th.items)
    IN  /\ th.pc = "Add"
        /\ providers' = after.providers
        /\ functions' = after.functions
        /\ repeats' = after.repeats
        /\ err' = IF after.err # NoError THEN after.err ELSE err
        /\ last' = IF after.err # NoError THEN [last EXCEPT !.failed = th.i] ELSE last
        /\ UNCHANGED walk
        /\ conc' = IF done THEN [conc EXCEPT !.th[t].pc = "unlock"]
                   ELSE [conc EXCEPT !.th[t].i = th.i + 1]
        /\ UNCHANGED <<values, cleanups, ctx, parent, cancelled, targets, calls, runs,
                       sorted, invoked, runErr, released, cleanupErrs, allReleased>>

\* Run in goroutine t, up to the loop: the check of b.err and dag.Resolve
RunStep(t) ==
    LET th == conc.th[t]
        resolved == Resolve(providers)
        failed == IF err # NoError THEN err ELSE resolved.err
        order == IF failed # NoError THEN <<>> ELSE resolved.sorted
    IN  /\ th.pc = "Run"
        /\ runs' = runs + 1
        /\ sorted' = IF err # NoError THEN <<>> ELSE resolved.sorted
        /\ invoked' = <<>>
        /\ runErr' = failed
        /\ UNCHANGED walk
        /\ conc' = IF order = <<>> THEN [conc EXCEPT !.th[t].pc = "unlock"]
                   ELSE [conc EXCEPT !.th[t].pc = "exec", !.th[t].order = order]
        /\ UNCHANGED <<providers, values, cleanups, functions, ctx, err, parent, cancelled,
                       targets, calls, last, released, cleanupErrs, allReleased, repeats>>

\* Run in goroutine t: one pass of the loop over the sorted nodes
ExecStep(t) ==
    LET th == conc.th[t]
        es == [values |-> values, cleanups |-> cleanups, targets |-> targets,
               invoked |-> invoked, err |-> NoError]
        after == ExecuteAll(providers, <<th.order[th.i]>>, 1, es, th.bad, runs, ctx)
    IN  /\ th.pc = "exec"
        /\ values' = after.values
        /\ cleanups' = after.cleanups
        /\ targets' = after.targets
        /\ invoked' = after.invoked
        /\ runErr' = after.err
        /\ UNCHANGED walk
        /\ conc' = IF after.err # NoError \/ th.i = Len(th.order)
                   THEN [conc EXCEPT !.th[t].pc = "unlock"]
                   ELSE [conc EXCEPT !.th[t].i = th.i + 1]
        /\ UNCHANGED <<providers, functions, ctx, err, parent, cancelled, calls, runs, last,
                       sorted, released, cleanupErrs, allReleased, repeats>>

\* Cleanup in goroutine t, up to the loop: b.cancel()
CancelStep(t) ==
    /\ conc.th[t].pc = "Cleanup"
    /\ cancelled' = cancelled \cup {ctx}
    /\ released' = <<>>
    /\ cleanupErrs' = <<>>
    /\ UNCHANGED walk
    /\ conc' = IF cleanups = <<>> THEN [conc EXCEPT !.th[t].pc = "unlock"]
               ELSE [conc EXCEPT !.th[t].pc = "release", !.th[t].i = Len(cleanups)]
    /\ UNCHANGED <<providers, values, cleanups, functions, ctx, err, parent, targets,
                   calls, runs, last, sorted, invoked, runErr, allReleased, repeats>>

\* Cleanup in goroutine t: one pass of the loop over b.cleanups
ReleaseStep(t) ==
    LET th == conc.th[t]
        cs == CleanupLoop(<<cleanups[th.i]>>, 1, cancelled,
                          [released |-> released, errs |-> cleanupErrs])
    IN  /\ th.pc = "release"
        /\ released' = cs.released
        /\ cleanupErrs' = cs.errs
        /\ allReleased' = Append(allReleased, cleanups[th.i])
        /\ UNCHANGED walk
        /\ conc' = IF th.i = 1 THEN [conc EXCEPT !.th[t].pc = "unlock"]
                   ELSE [conc EXCEPT !.th[t].i = th.i - 1]
        /\ UNCHANGED <<providers, values, cleanups, functions, ctx, err, parent, cancelled,
                       targets, calls, runs, last, sorted, invoked, runErr, repeats>>

\* WithContext in goroutine t
WithContextStep(t) ==
    /\ conc.th[t].pc = "WithContext"
    /\ ctx' = Len(parent) + 1
    /\ parent' = Append(parent, conc.th[t].c)
    /\ UNCHANGED walk
    /\ conc' = [conc EXCEPT !.th[t].pc = "unlock"]
    /\ UNCHANGED <<providers, values, cleanups, functions, err, cancelled, targets,
                   calls, runs, last, sorted, invoked, runErr, released, cleanupErrs,
                   allReleased, repeats>>

\* the deferred b.mu.Unlock() of goroutine t, and the return of its call
Unlock(t) ==
    /\ conc.th[t].pc = "unlock"
    /\ UNCHANGED walk
    /\ conc' = [conc EXCEPT !.mu = 0, !.th[t] = Idle]
    /\ UNCHANGED <<providers, values, cleanups, functions, ctx, err, parent, cancelled,
                   targets, calls, runs, last, sorted, invoked, runErr, released,
                   cleanupErrs, allReleased, repeats>>

NextConc ==
    \E t \in Threads :
        \/ \E call \in ConcCalls : Invoke(t, call)
        \/ Lock(t)
        \/ AddStep(t)
        \/ RunStep(t)
        \/ ExecStep(t)
        \/ CancelStep(t)
        \/ ReleaseStep(t)
        \/ WithContextStep(t)
        \/ Unlock(t)

SpecConc == Init /\ [][NextConc]_vars

\* ------------------------------------------------- the graph, declaratively
Nodes == 1..Len(providers)
\* node j declares output key k; node i declares input key k
Produces(j, k) == \E s \in 1..Len(providers[j].Outputs) : providers[j].Outputs[s] = k
Consumes(i, k) == \E s \in 1..Len(providers[i].Inputs) : providers[i].Inputs[s] = k
\* node i depends on node j: some input key of i is produced by j
DependsOn(i, j) == \E k \in Keys : Consumes(i, k) /\ Produces(j, k)
\* the position of x in a sequence that holds it
Position(seq, x) == CHOOSE q \in 1..Len(seq) : seq[q] = x
IsPermutation(seq, S) ==
    /\ Len(seq) = Cardinality(S)
    /\ \A x \in S : \E q \in 1..Len(seq) : seq[q] = x

\* output slot s of node j repeats a key declared before it (by an earlier
\* node, or in an earlier slot of node j)
OutSlots(j) == 1..Len(providers[j].Outputs)
InSlots(i) == 1..Len(providers[i].Inputs)
Before(i, r, j, s) == i < j \/ (i = j /\ r < s)
Collides(j, s) ==
    \E i \in Nodes : \E r \in OutSlots(i) :
        Before(i, r, j, s) /\ providers[i].Outputs[r] = providers[j].Outputs[s]
HasCollision == \E j \in Nodes : \E s \in OutSlots(j) : Collides(j, s)
TwoProducers(k) == \E i, j \in Nodes : i # j /\ Produces(i, k) /\ Produces(j, k)
\* input slot s of node i names a key nobody produces
Missing(i, s) == ~\E j \in Nodes : Produces(j, providers[i].Inputs[s])
HasMissing == \E i \in Nodes : \E s \in InSlots(i) : Missing(i, s)
\* j is reached from i along at most n dependency edges
RECURSIVE ReachesWithin(_, _, _)
ReachesWithin(i, j, n) ==
    /\ n > 0
    /\ \/ DependsOn(i, j)
       \/ \E m \in Nodes : DependsOn(i, m) /\ ReachesWithin(m, j, n - 1)
Reaches(i, j) == ReachesWithin(i, j, Len(providers))
HasCycle == \E i \in Nodes : Reaches(i, i)

\* The duplicate-provider error of the first collision in registration order,
\* then output order.
FirstCollisionError ==
    LET js == CHOOSE x \in UNION {{<<j, s>> : s \in OutSlots(j)} : j \in Nodes} :
                  /\ Collides(x[1], x[2])
                  /\ \A j \in Nodes : \A s \in OutSlots(j) :
                         Collides(j, s) => ~Before(j, s, x[1], x[2])
        key == providers[js[1]].Outputs[js[2]]
        first == CHOOSE i \in Nodes : \E r \in OutSlots(i) :
                     Before(i, r, js[1], js[2]) /\ providers[i].Outputs[r] = key
    IN  DuplicateProvider(key, providers[first], providers[js[1]])

\* The missing-dependency error of the first input without a producer, in
\* registration order, then declared input order.
FirstMissingError ==
    LET is == CHOOSE x \in UNION {{<<i, s>> : s \in InSlots(i)} : i \in Nodes} :
                  /\ Missing(x[1], x[2])
                  /\ \A i \in Nodes : \A s \in InSlots(i) :
                         Missing(i, s) => ~Before(i, s, x[1], x[2])
    IN  MissingDependency(providers[is[1]].Inputs[is[2]], providers[is[1]])

\* The labels name a dependency cycle: the path starts and ends with the same
\* node, lists no other node twice, and each node depends on the next.
NodeOf(label) == CHOOSE i \in Nodes : nodeLabel(providers[i]) = label
IsCyclePath(labels) ==
    /\ Len(labels) >= 2
    /\ labels[1] = labels[Len(labels)]
    /\ \A q \in 1..Len(labels) : \E i \in Nodes : nodeLabel(providers[i]) = labels[q]
    /\ \A q, r \in 1..(Len(labels) - 1) : q # r => labels[q] # labels[r]
    /\ \A q \in 1..(Len(labels) - 1) : DependsOn(NodeOf(labels[q]), NodeOf(labels[q + 1]))

RunReturned == last.op = "Run"
\* the nodes the last Run invoked, in order
InvokedNodes == [q \in 1..Len(invoked) |-> invoked[q].node]
\* call q of the last Run returned a non-nil error in return slot `slot`
ReturnedError(q, slot) == invoked[q].results[slot].err # NoError
NoCallFailed ==
    \A q \in 1..Len(invoked) : \A slot \in 1..Len(invoked[q].results) : ~ReturnedError(q, slot)
\* every argument of every call of the last Run was written to the cache by
\* an earlier call of the same Run, for the key the parameter declares
InputsWrittenEarlier ==
    \A q \in 1..Len(invoked) : \A s \in 1..Len(invoked[q].args) :
        LET v == invoked[q].args[s]
        IN  /\ v # NoValue
            /\ v.gen = runs
            /\ v.ord < q
            /\ invoked[v.ord].results[v.slot].val = v
            /\ KeyOf(v) = providers[invoked[q].node].Inputs[s]
            /\ Len(invoked[q].args) = Len(providers[invoked[q].node].Inputs)
NoNodeInvokedTwice ==
    \A q, r \in 1..Len(invoked) : q # r => invoked[q].node # invoked[r].node

\* ------------------------------------------------------------------ claims

\* C1: whenever Resolve succeeds, the returned sequence is a permutation of the
\* registered nodes (each exactly once) and every node comes strictly after
\* every node that produces one of its input keys.
C1_ResolveOrder ==
    (last.op = "Resolve" /\ runErr = NoError) =>
        /\ IsPermutation(sorted, Nodes)
        /\ \A i, j \in Nodes :
               DependsOn(i, j) => Position(sorted, j) < Position(sorted, i)

\* C1 witness: Resolve succeeded on a list in which a consumer was registered
\* before its producer, so the returned order differs from registration order.
C1_Witness ==
    /\ last.op = "Resolve" /\ runErr = NoError
    /\ \E i, j \in Nodes : i < j /\ DependsOn(i, j)
    /\ \E q \in 1..Len(sorted) : sorted[q] # q

\* C2 as stated: for registered nodes with a unique producer per key and no
\* cycles, Run returns nil, invokes every node exactly once and hands every
\* node inputs written earlier in the same Run.
C2_Original ==
    (RunReturned /\ ~(\E k \in Keys : TwoProducers(k)) /\ ~HasMissing /\ ~HasCycle) =>
        /\ runErr = NoError
        /\ IsPermutation(InvokedNodes, Nodes)
        /\ InputsWrittenEarlier

\* C2 (amended): with no stored registration error, no output key declared
\* twice, a producer for every input key and no cycle, Run returns nil or the
\* error a constructor returned; when no constructor returned an error it
\* returns nil and has invoked every node exactly once; in both cases no node
\* is invoked twice and every input of every invoked node was written to the
\* cache by a node invoked strictly earlier in the same Run.
C2_RunSucceeds ==
    (RunReturned /\ err = NoError /\ ~HasCollision /\ ~HasMissing /\ ~HasCycle) =>
        /\ runErr.kind \in {"nil", "constructor"}
        /\ NoCallFailed => (runErr = NoError /\ IsPermutation(InvokedNodes, Nodes))
        /\ NoNodeInvokedTwice
        /\ InputsWrittenEarlier

\* C2 witness: a second successful Run of a container with a chain of three
\* dependent constructors.
C2_Witness ==
    /\ RunReturned /\ err = NoError /\ runErr = NoError /\ runs = 2
    /\ Len(invoked) = 4
    /\ \E q \in 1..Len(invoked) : Len(invoked[q].args) = 2

\* C3 as stated: two registered nodes that declare the same output key make
\* Run fail with a duplicate-provider error naming that key and both nodes.
C3_Original ==
    \A i, j \in Nodes : \A k \in Keys :
        (RunReturned /\ i < j /\ Produces(i, k) /\ Produces(j, k)) =>
            runErr = DuplicateProvider(k, providers[i], providers[j])

\* C3 (amended): if two registered nodes declare the same output key and no
\* registration error is stored, Run fails with a duplicate-provider error; it
\* names the key and the declaring nodes of the first collision in
\* registration order (that key and both nodes, the earlier registered first,
\* when theirs is the only collision), and a provider of the context key
\* registered on a fresh container collides with the container's own.
C3_DuplicateProvider ==
    /\ (RunReturned /\ err = NoError /\ \E k \in Keys : TwoProducers(k)) =>
           runErr = FirstCollisionError
    /\ \A i, j \in Nodes : \A k \in Keys :
           (/\ RunReturned /\ err = NoError
            /\ i < j /\ Produces(i, k) /\ Produces(j, k)
            /\ \A n \in Nodes : \A s \in OutSlots(n) :
                   Collides(n, s) => (n = j /\ providers[n].Outputs[s] = k)
            /\ \A n \in Nodes : Produces(n, k) => n \in {i, j})
           => runErr = DuplicateProvider(k, providers[i], providers[j])
    /\ (RunReturned /\ err = NoError /\ Len(providers) = 2 /\ Produces(2, "ctx")) =>
           runErr = DuplicateProvider("ctx", providers[1], providers[2])

\* C3 witness: Run reported the collision of two user constructors, the one
\* registered first not being the first of the list.
C3_Witness ==
    /\ RunReturned /\ err = NoError /\ runErr.kind = "duplicate provider"
    /\ \E i, j \in Nodes : 1 < i /\ i < j /\ j < Len(providers)
           /\ runErr = DuplicateProvider(runErr.key, providers[i], providers[j])

\* C4 as stated: an input key nobody produces, no key having two producers,
\* makes Run fail with the missing-dependency error of the first such input.
C4_Original ==
    (RunReturned /\ ~(\E k \in Keys : TwoProducers(k)) /\ HasMissing) =>
        runErr = FirstMissingError

\* C4 (amended): if some registered node declares an input key that no
\* registered node produces, no output key is declared twice (by two nodes or
\* twice by one node) and no registration error is stored, Run fails with a
\* missing-dependency error naming that key and the requesting node, for the
\* first such (node, input) pair in registration order then input order.
C4_MissingDependency ==
    (RunReturned /\ err = NoError /\ ~HasCollision /\ HasMissing) =>
        runErr = FirstMissingError

\* C4 witness: two inputs lack a producer, and the reported one is the second
\* input of its node.
C4_Witness ==
    /\ RunReturned /\ err = NoError /\ ~HasCollision
    /\ runErr.kind = "missing dependency"
    /\ \E i, j \in Nodes : /\ i < j /\ Len(providers[i].Inputs) = 2
                           /\ Missing(i, 2) /\ ~Missing(i, 1)
                           /\ \E t \in InSlots(j) : Missing(j, t)

\* C5 as stated: a cycle in the dependency relation makes Run fail with a
\* cycle error whose path is that cycle.
C5_Original ==
    (RunReturned /\ HasCycle) =>
        (runErr.kind = "cyclic dependence" /\ IsCyclePath(runErr.labels))

\* C5 (amended): if the dependency relation contains a cycle (a node consuming
\* a key it produces included), no registration error is stored, no output key
\* is declared twice and every input key has a producer, Run fails with a
\* cycle error whose path starts and ends with the same node, lists the nodes
\* of one cycle once each, each depending directly on the node listed next.
C5_CycleError ==
    (RunReturned /\ err = NoError /\ ~HasCollision /\ ~HasMissing /\ HasCycle) =>
        (runErr.kind = "cyclic dependence" /\ IsCyclePath(runErr.labels))

\* C5 witness: a cycle of two nodes entered from a node outside it.
C5_Witness ==
    /\ RunReturned /\ err = NoError /\ runErr.kind = "cyclic dependence"
    /\ Len(runErr.labels) = 3
    /\ \E i \in Nodes : Reaches(i, NodeOf(runErr.labels[1])) /\ ~Reaches(i, i)

ConstructedBefore(v, w) ==
    \/ v.gen < w.gen
    \/ v.gen = w.gen /\ v.ord < w.ord
    \/ v.gen = w.gen /\ v.ord = w.ord /\ v.slot < w.slot
CleanupReturned == last.op = "Cleanup"

\* C7: Cleanup calls the release actions in the exact reverse of the order in
\* which their values were constructed: of two released values, the one
\* constructed later is released first.
C7_ReverseOrder ==
    CleanupReturned =>
        \A q, r \in 1..Len(released) :
            q < r => ConstructedBefore(released[r].value, released[q].value)

\* C7 witness: B was built from A, and Cleanup released B, then A.
C7_Witness ==
    /\ CleanupReturned /\ Len(released) = 2
    /\ released[1].value.fn = "mkB" /\ released[2].value.fn = "mkA"
    /\ released[1].value.gen = released[2].value.gen

\* C8 as stated: after Cleanup returns the cleanup list is empty, and no
\* release action is ever called twice.
C8_Original ==
    /\ CleanupReturned => cleanups = <<>>
    /\ \A q, r \in 1..Len(allReleased) : q # r => allReleased[q] # allReleased[r]

\* C9: one Cleanup call attempts every release action of the cleanup list
\* exactly once, whatever the earlier ones returned, and returns an aggregate
\* error exactly when at least one of them failed.
C9_AllAttempted ==
    CleanupReturned =>
        /\ Len(released) = Len(cleanups)
        /\ \A i \in 1..Len(cleanups) :
               Cardinality({q \in 1..Len(released) : released[q].value = cleanups[i]}) = 1
        /\ (CleanupReturn(cleanupErrs) # NoError) <=>
               (\E i \in 1..Len(cleanups) : CleanupFails(cleanups[i]))
        /\ \A i \in 1..Len(cleanups) :
               CleanupFails(cleanups[i]) =>
                   \E e \in 1..Len(cleanupErrs) : cleanupErrs[e] = cleanups[i]

\* C9 witness: the release called first failed and the one after it was
\* still called.
C9_Witness ==
    /\ CleanupReturned /\ Len(released) >= 2
    /\ CleanupFails(released[1].value) /\ ~CleanupFails(released[2].value)
    /\ CleanupReturn(cleanupErrs) # NoError

\* C10: registration errors are deferred and sticky.  Once b.err is set no
\* call changes the node list or the stored error; an Add call whose item
\* number `failed` fails registers at most the items before it; and a Run
\* with a stored error returns that error, invokes no constructor and leaves
\* the cache and the cleanup list alone.
C10_StickyError ==
    [][/\ err # NoError => (providers' = providers /\ err' = err)
       /\ (last'.op = "Add" /\ last'.failed > 0) =>
              /\ err' # NoError
              /\ Len(providers') <= Len(providers) + last'.failed - 1
              /\ SubSeq(providers', 1, Len(providers)) = providers
       /\ (last'.op = "Run" /\ err # NoError) =>
              /\ runErr' = err
              /\ invoked' = <<>>
              /\ values' = values /\ cleanups' = cleanups /\ targets' = targets
      ]_vars

\* C10 witness: a Run returned the stored registration error on a container
\* that holds a constructor registered before the failure, after a later Add.
C10_Witness ==
    /\ RunReturned /\ err # NoError /\ runErr = err
    /\ Len(providers) > 1 /\ invoked = <<>>
    /\ calls >= 3

\* the values one Cleanup call released, in the order it released them
ReleasedValues == [q \in 1..Len(released) |-> released[q].value]
Reverse(seq) == [q \in 1..Len(seq) |-> seq[Len(seq) + 1 - q]]
\* v is a value with a release action that call q of the last Run returned
HasRelease(v) == ~v.isNil /\ IsCleanable(v)
ReturnedBy(q, v) ==
    \E slot \in 1..Len(invoked[q].results) :
        ~invoked[q].results[slot].isErr /\ invoked[q].results[slot].val = v
\* the last Run stopped at a constructor that returned an error
RunFailedInConstructor == runs > 0 /\ runErr.kind = "constructor"

\* C11: when the last Run failed because a constructor returned an error, the
\* cleanup list holds, for that Run, exactly the values with a release action
\* returned by the calls before the failing one, and a following Cleanup calls
\* the release actions of the values produced before the failure (those, and
\* the ones kept from earlier Runs) in reverse construction order; it calls
\* none when no value produced before the failure has a release action.
C11_CleanupsKept ==
    (CleanupReturned /\ RunFailedInConstructor) =>
        /\ ReleasedValues = Reverse(cleanups)
        /\ \A q, r \in 1..Len(released) :
               q < r => ConstructedBefore(released[r].value, released[q].value)
        /\ \A q \in 1..Len(released) :
               LET v == released[q].value
               IN  /\ HasRelease(v)
                   /\ v.gen <= runs
                   /\ v.gen = runs => (v.ord < Len(invoked) /\ ReturnedBy(v.ord, v))
        /\ \A c \in 1..(Len(invoked) - 1) : \A slot \in 1..Len(invoked[c].results) :
               LET res == invoked[c].results[slot]
               IN  (~res.isErr /\ HasRelease(res.val)) =>
                       Cardinality({q \in 1..Len(released) : released[q].value = res.val}) = 1
        /\ (runs = 1 /\ \A c \in 1..(Len(invoked) - 1) :
                            \A slot \in 1..Len(invoked[c].results) :
                                ~HasRelease(invoked[c].results[slot].val))
               => released = <<>>

\* C11 witness: the second Run failed in a constructor after an earlier call
\* had returned a value with a release action; Cleanup released that value
\* first and a value of the first Run last.
C11_Witness ==
    /\ CleanupReturned /\ RunFailedInConstructor /\ runs = 2
    /\ Len(invoked) >= 3 /\ Len(released) >= 2
    /\ released[1].value.gen = 2 /\ released[Len(released)].value.gen = 1

\* the errors Run returns before it executes anything
ResolutionKinds ==
    {"registration", "duplicate provider", "missing dependency", "cyclic dependence"}

\* C12: a Run that fails with a registration, duplicate-provider,
\* missing-dependency or cycle error invokes no constructor and leaves the
\* value cache, the cleanup list and the population targets as they were.
C12_NoPartialEffects ==
    [][(last'.op = "Run" /\ runs' = runs + 1 /\ runErr'.kind \in ResolutionKinds) =>
           /\ invoked' = <<>>
           /\ values' = values
           /\ cleanups' = cleanups
           /\ targets' = targets
      ]_vars

\* C12 witness: a Run failed in resolution on a container whose earlier Run
\* had filled the cache and the cleanup list.
C12_Witness ==
    /\ RunReturned /\ runs = 2 /\ err = NoError
    /\ runErr.kind \in ResolutionKinds \ {"registration"}
    /\ invoked = <<>>
    /\ cleanups # <<>> /\ values["A"] # NoValue

\* C13: Cleanup cancels the container's context before the first release
\* action: after every Cleanup call the context is cancelled, also when the
\* cleanup list was empty, and every release action of the call saw it
\* cancelled.
C13_CancelFirst ==
    CleanupReturned =>
        /\ ctx \in cancelled
        /\ \A q \in 1..Len(released) : released[q].ctxDone

\* C13 witness: Cleanup released a value whose constructor had taken the
\* context as an input, and the release saw the context cancelled.
C13_Witness ==
    /\ CleanupReturned /\ ctx \in cancelled
    /\ \E q \in 1..Len(released) :
           released[q].value.fn = "midBC" /\ released[q].ctxDone

\* context c is done: its cancel function was called, or a context it was
\* derived from is done (Background, 0, never is)
RECURSIVE Done(_)
Done(c) == c # 0 /\ (c \in cancelled \/ Done(parent[c]))
\* the contexts the calls of the last Run received as an input
HandedContexts ==
    UNION {{invoked[q].args[s].ctx : s \in 1..Len(invoked[q].args)} :
              q \in 1..Len(invoked)} \ {0}

\* C14 as stated: whatever the order of the calls, once Cleanup has returned
\* every context handed to a constructor is cancelled, and the constructors of
\* a Run receive the context WithContext derived last.
C14_Original ==
    /\ CleanupReturned => \A c \in HandedContexts : Done(c)
    /\ RunReturned => \A c \in HandedContexts : c = ctx

\* the nodes of constructor f in b.providers; the calls of f by the last Run
NodesOf(f) == {i \in Nodes : providers[i].Fn = f}
CallsOf(f) == {q \in 1..Len(invoked) : providers[invoked[q].node].Fn = f}
\* some key of node i is declared a second time, by another node or by i
CollidesWithOutputOf(i) ==
    \E j \in Nodes : \E r \in OutSlots(i) : \E s \in OutSlots(j) :
        (i # j \/ r # s) /\ providers[i].Outputs[r] = providers[j].Outputs[s]

\* C15 as stated: a constructor handed to Add again has one node, appears
\* once in the order the last Run resolved, was invoked exactly once by it,
\* and that Run reported no duplicate provider for one of its outputs.
C15_Original ==
    \A f \in repeats :
        /\ Cardinality(NodesOf(f)) = 1
        /\ RunReturned =>
               /\ Cardinality({q \in 1..Len(sorted) : sorted[q] \in NodesOf(f)}) = 1
               /\ Cardinality(CallsOf(f)) = 1
               /\ ~(runErr.kind = "duplicate provider" /\ \E i \in NodesOf(f) : Produces(i, runErr.key))

\* C15 (amended): a constructor handed to Add again (in one call or in a
\* later one) keeps its single node in the node list; when Resolve succeeds it
\* appears once in the resolved order; a Run invokes it at most once, and
\* exactly once when the Run returns nil; and a duplicate-provider error is
\* reported for one of its outputs only when that key is declared a second
\* time by another node or by the constructor itself.
C15_Idempotent ==
    \A f \in repeats :
        /\ Cardinality(NodesOf(f)) = 1
        /\ (RunReturned /\ runErr.kind \notin ResolutionKinds) =>
               Cardinality({q \in 1..Len(sorted) : sorted[q] \in NodesOf(f)}) = 1
        /\ RunReturned =>
               /\ Cardinality(CallsOf(f)) <= 1
               /\ runErr = NoError => Cardinality(CallsOf(f)) = 1
               /\ (runErr.kind = "duplicate provider" /\ \E i \in NodesOf(f) : Produces(i, runErr.key))
                      => \E i \in NodesOf(f) : CollidesWithOutputOf(i)

\* C15 witness: two constructors were each handed to Add twice and the Run
\* that followed returned nil after invoking each of them once.
C15_Witness ==
    /\ RunReturned /\ runErr = NoError
    /\ Cardinality(repeats) = 2
    /\ \A f \in repeats : Cardinality(CallsOf(f)) = 1

\* the nodes registerTargetPopulator made: one per pointer handed to Add whose
\* pointee does not embed Inject
Populators == {i \in Nodes : providers[i].Target # "" /\ ~hasInject(providers[i].Target)}
Producers(k) == {j \in Nodes : Produces(j, k)}

\* C16 as stated: a population target is a node with no output and the
\* target's type as its single input; with no producer of that type Run fails
\* with a missing-dependency error and the target stays unwritten; with a
\* producer the target comes after it in the resolved order and holds the
\* cached value after a successful Run.
C16_Original ==
    \A i \in Populators :
        LET t == providers[i].Target
            k == TargetFields(t)[1]
        IN  /\ providers[i].Outputs = <<>> /\ providers[i].Inputs = <<k>>
            /\ (RunReturned /\ Producers(k) = {}) =>
                   (runErr.kind = "missing dependency" /\ targets[t] = <<>>)
            /\ (RunReturned /\ runErr.kind \notin ResolutionKinds) =>
                   \A j \in Producers(k) : Position(sorted, j) < Position(sorted, i)
            /\ (RunReturned /\ runErr = NoError) =>
                   (values[k] # NoValue /\ values[k].gen = runs /\ targets[t] = <<values[k]>>)

\* C16 (amended): a population target is a node with no output and the
\* target's type as its single input.  With no producer of that type, no
\* stored registration error and no output key declared twice, Run fails with
\* a missing-dependency error; whatever Run returns then, the target stays
\* unwritten.  With a producer (registered before or after the target) the
\* target comes after the producer in every resolved order, and after a
\* successful Run it holds the value the producer wrote to the cache in that Run.
C16_PopulationTarget ==
    \A i \in Populators :
        LET t == providers[i].Target
            k == TargetFields(t)[1]
        IN  /\ providers[i].Outputs = <<>> /\ providers[i].Inputs = <<k>>
            /\ (RunReturned /\ Producers(k) = {}) =>
                   /\ targets[t] = <<>>
                   /\ (err = NoError /\ ~HasCollision) => runErr.kind = "missing dependency"
            /\ (RunReturned /\ runErr.kind \notin ResolutionKinds) =>
                   \A j \in Producers(k) : Position(sorted, j) < Position(sorted, i)
            /\ (RunReturned /\ runErr = NoError) =>
                   (values[k] # NoValue /\ values[k].gen = runs /\ targets[t] = <<values[k]>>)

\* C16 witness: the producer was registered after the target and a Run
\* succeeded, leaving the produced value in the target.
C16_Witness ==
    /\ RunReturned /\ runErr = NoError
    /\ \E i \in Populators : \E j \in Producers(TargetFields(providers[i].Target)[1]) :
           /\ i < j
           /\ Position(sorted, j) < Position(sorted, i)
           /\ targets[providers[i].Target] = <<values[TargetFields(providers[i].Target)[1]]>>
           /\ ~values[TargetFields(providers[i].Target)[1]].isNil

\* goroutine t holds b.mu: it is between Lock and Unlock of its call
InCall(t) == conc.th[t].pc \notin {"idle", "lock"}
\* goroutine t has done the work of its call and is about to unlock
Finished(t) == conc.th[t].pc = "unlock"
\* The container as the call of goroutine t leaves it when nothing else runs
\* between its Lock and its Unlock: the whole call applied to the fields as
\* they were when t took the lock.
SequentialEffect(t) ==
    LET th == conc.th[t]
        s == th.snap
        rs == [providers |-> s.providers, functions |-> s.functions, err |-> NoError,
               failed |-> 0, repeats |-> s.repeats]
        added == IF s.err # NoError THEN [rs EXCEPT !.err = s.err] ELSE AddAll(th.items, 1, rs)
        es0 == [values |-> s.values, cleanups |-> s.cleanups, targets |-> s.targets,
                invoked |-> <<>>, err |-> NoError]
        resolved == Resolve(s.providers)
        ran == IF s.err # NoError THEN [es0 EXCEPT !.err = s.err]
               ELSE IF resolved.err # NoError THEN [es0 EXCEPT !.err = resolved.err]
               ELSE ExecuteAll(s.providers, resolved.sorted, 1, es0, th.bad, s.runs + 1, s.ctx)
        cs == CleanupLoop(s.cleanups, Len(s.cleanups), s.cancelled \cup {s.ctx},
                          [released |-> <<>>, errs |-> <<>>])
    IN  CASE th.name = "Add" ->
                 /\ SnapNow = [s EXCEPT !.providers = added.providers,
                                        !.functions = added.functions,
                                        !.err = added.err, !.repeats = added.repeats]
                 /\ last = ApiCall("Add", Len(th.items), added.failed, s.err # NoError)
          [] th.name = "Run" ->
                 /\ SnapNow = [s EXCEPT !.values = ran.values, !.cleanups = ran.cleanups,
                                        !.targets = ran.targets, !.runs = s.runs + 1]
                 /\ invoked = ran.invoked
                 /\ runErr = ran.err
          [] th.name = "Cleanup" ->
                 /\ SnapNow = [s EXCEPT !.cancelled = s.cancelled \cup {s.ctx},
                                        !.allReleased = s.allReleased \o
                                            [q \in 1..Len(cs.released) |-> cs.released[q].value]]
                 /\ released = cs.released
                 /\ cleanupErrs = cs.errs
          [] th.name = "WithContext" ->
                 SnapNow = [s EXCEPT !.ctx = Len(s.parent) + 1,
                                     !.parent = Append(s.parent, th.c)]

\* C17: calls made concurrently on one container exclude one another and take
\* effect as whole calls in the order in which they took the lock: at most
\* one goroutine is inside a call at any time (so no Run resolves or executes
\* while an Add is between two of its items, no two goroutines execute
\* constructors at the same time, and no Cleanup runs while a Run is in its
\* loop), and every call leaves the container as the whole call does when it
\* runs alone from the state it found.
C17_Serialized ==
    /\ \A t, u \in Threads : (InCall(t) /\ InCall(u)) => t = u
    /\ \A t \in Threads : InCall(t) => conc.mu = t
    /\ \A t, u \in Threads :
           ~(conc.th[t].pc \in {"Run", "exec"} /\ conc.th[u].pc = "Add" /\ conc.th[u].i > 1)
    /\ \A t, u \in Threads : (conc.th[t].pc = "exec" /\ conc.th[u].pc = "exec") => t = u
    /\ \A t, u \in Threads :
           ~(conc.th[t].pc = "exec" /\ conc.th[u].pc \in {"Cleanup", "release"})
    /\ \A t \in Threads : Finished(t) => SequentialEffect(t)

\* C17 witness: a Run has executed three constructors while another goroutine
\* was waiting for the lock with a two-item Add, after an earlier call of that
\* goroutine.
C17_Witness ==
    \E t, u \in Threads :
        /\ Finished(t) /\ conc.th[t].name = "Run" /\ Len(invoked) = 3
        /\ conc.th[u].pc = "lock" /\ conc.th[u].name = "Add" /\ Len(conc.th[u].items) = 2
        /\ SequentialEffect(t)

\* C18 as stated: Resolve reports a duplicate provider only for a key that two
\* different nodes declare; a node that declares one key in two of its own
\* output slots, no other node producing it, is not rejected for that key.
C18_Original ==
    (last.op = "Resolve" /\ runErr.kind = "duplicate provider") => TwoProducers(runErr.key)

\* C19: for every node list in which no output key is declared a second time
\* and every input key has a producer, Resolve returns a cycle error if and
\* only if the dependency relation contains a cycle, and nothing else but nil;
\* and whatever the node list, a cycle error is returned only when there is a
\* cycle (a node reached twice along different paths is none).
C19_CycleDetection ==
    last.op = "Resolve" =>
        /\ runErr.kind = "cyclic dependence" => HasCycle
        /\ (~HasCollision /\ ~HasMissing) =>
               /\ HasCycle => runErr.kind = "cyclic dependence"
               /\ ~HasCycle => runErr = NoError

\* C19 witness: Resolve reported a cycle one of whose nodes also depends on a
\* node outside the cycle that was fully explored, and marked visited, before
\* the cycle was entered.
C19_Witness ==
    /\ last.op = "Resolve" /\ runErr.kind = "cyclic dependence"
    /\ \E i, j \in Nodes :
           /\ Reaches(i, i) /\ DependsOn(i, j) /\ ~Reaches(j, j)
           /\ \A m \in Nodes : Reaches(m, m) => j < m

\* C20: no Run ever returns the internal "missing value" error, whatever
\* calls came before it: every input of every node Run executes is in the
\* value cache when the node is reached.
C20_NoInternalError ==
    /\ runErr.kind # "internal error"
    /\ RunReturned => \A q \in 1..Len(invoked) : \A a \in 1..Len(invoked[q].args) :
                          invoked[q].args[a] # NoValue

\* C20 witness: a second Run succeeded on a container to which a consumer was
\* added, or in which it had failed, after the first Run: the cleanup list
\* holds A from both Runs and B from the second only.
C20_Witness ==
    /\ RunReturned /\ runErr = NoError /\ runs = 2
    /\ \E q \in 1..Len(invoked) : invoked[q].args # <<>>
    /\ \E x \in 1..Len(cleanups) : KeyOf(cleanups[x]) = "A" /\ cleanups[x].gen = 1
    /\ \E x \in 1..Len(cleanups) : KeyOf(cleanups[x]) = "B" /\ cleanups[x].gen = 2
    /\ \A x \in 1..Len(cleanups) : KeyOf(cleanups[x]) = "B" => cleanups[x].gen = 2

\* the non-error results of call q of the Run that has just returned
ResultsOf(inv, q) ==
    {inv[q].results[slot].val :
        slot \in {x \in 1..Len(inv[q].results) : ~inv[q].results[x].isErr}}
\* the calls of the Run before the failing one, which is the last
EarlierCalls(inv) == 1..(Len(inv) - 1)

\* C21: a Run that stops at a constructor returning an error stores none of
\* that call's other results and appends no release action for them; the
\* cache holds, per key, the value written by the calls before the failing one
\* (or what it held before the Run), and the cleanup list is the one before
\* the Run followed by the releasable non-nil results of those calls, in order.
C21_FailedNodeContributesNothing ==
    [][(last'.op = "Run" /\ runs' = runs + 1 /\ runErr'.kind = "constructor") =>
           /\ \A v \in ResultsOf(invoked', Len(invoked')) :
                  /\ \A k \in Keys : values'[k] # v
                  /\ \A x \in 1..Len(cleanups') : cleanups'[x] # v
           /\ \A k \in Keys :
                  IF \E q \in EarlierCalls(invoked') : \E v \in ResultsOf(invoked', q) : KeyOf(v) = k
                  THEN \E q \in EarlierCalls(invoked') : values'[k] \in ResultsOf(invoked', q)
                  ELSE values'[k] = values[k]
           /\ Len(cleanups') >= Len(cleanups)
           /\ SubSeq(cleanups', 1, Len(cleanups)) = cleanups
           /\ \A x \in (Len(cleanups) + 1)..Len(cleanups') :
                  /\ \E q \in EarlierCalls(invoked') : cleanups'[x] \in ResultsOf(invoked', q)
                  /\ HasRelease(cleanups'[x])
                  /\ \A y \in (Len(cleanups) + 1)..Len(cleanups') :
                         x < y => ConstructedBefore(cleanups'[x], cleanups'[y])
           /\ \A q \in EarlierCalls(invoked') : \A v \in ResultsOf(invoked', q) :
                  HasRelease(v) =>
                      \E x \in (Len(cleanups) + 1)..Len(cleanups') : cleanups'[x] = v
      ]_vars

\* C21 witness: the second Run stopped at a constructor that returned, next
\* to its error, a non-nil value with a release action; the cache still holds
\* the value the first Run stored for that key.
C21_Witness ==
    /\ RunReturned /\ runErr.kind = "constructor" /\ runs = 2
    /\ \E v \in ResultsOf(invoked, Len(invoked)) :
           /\ HasRelease(v)
           /\ values[KeyOf(v)] # NoValue /\ values[KeyOf(v)].gen = 1
           /\ \A x \in 1..Len(cleanups) : cleanups[x] # v

\* C22: Run reports the defects of a container in a fixed precedence: the
\* stored registration error; otherwise a duplicate-provider error when some
\* output key is declared a second time; otherwise a missing-dependency error
\* when some input key has no producer; otherwise a cycle error when the
\* dependency relation has a cycle; and a constructor's error (or nil) only
\* when none of these applies.
C22_ErrorPrecedence ==
    RunReturned =>
        /\ err # NoError => runErr = err
        /\ (err = NoError /\ HasCollision) => runErr.kind = "duplicate provider"
        /\ (err = NoError /\ ~HasCollision /\ HasMissing) =>
               runErr.kind = "missing dependency"
        /\ (err = NoError /\ ~HasCollision /\ ~HasMissing /\ HasCycle) =>
               runErr.kind = "cyclic dependence"
        /\ (err = NoError /\ ~HasCollision /\ ~HasMissing /\ ~HasCycle) =>
               runErr.kind \in {"nil", "constructor"}
        /\ runErr.kind = "constructor" =>
               (err = NoError /\ ~HasCollision /\ ~HasMissing /\ ~HasCycle)

\* C22 witness: the registered nodes have a key declared twice, an input
\* without producer and a cycle, all at once, and Run reported the duplicate.
C22_Witness ==
    /\ RunReturned /\ err = NoError
    /\ HasCollision /\ HasMissing /\ HasCycle
    /\ runErr.kind = "duplicate provider"

\* the writes of the last Run to the cache: <<q, slot>> for every non-error
\* result of a call q that returned no error
CallFailed(q) == \E slot \in 1..Len(invoked[q].results) : ReturnedError(q, slot)
Writes ==
    UNION {{<<q, slot>> : slot \in {x \in 1..Len(invoked[q].results) :
                                       ~invoked[q].results[x].isErr}} :
              q \in {c \in 1..Len(invoked) : ~CallFailed(c)}}
WrittenKey(w) == KeyOf(invoked[w[1]].results[w[2]].val)

\* C23: within one Run no key is written to the cache more than once, and
\* every value a node receives is the one the single write for its key stored
\* earlier in that Run, still in the cache when the Run returns.
C23_WriteOnce ==
    RunReturned =>
        /\ \A w1, w2 \in Writes : WrittenKey(w1) = WrittenKey(w2) => w1 = w2
        /\ \A w \in Writes : values[WrittenKey(w)] = invoked[w[1]].results[w[2]].val
        /\ \A q \in 1..Len(invoked) : \A a \in 1..Len(invoked[q].args) :
               LET v == invoked[q].args[a]
               IN  /\ <<v.ord, v.slot>> \in Writes
                   /\ v.gen = runs /\ v.ord < q
                   /\ invoked[v.ord].results[v.slot].val = v
                   /\ values[providers[invoked[q].node].Inputs[a]] = v

\* C23 witness: in a second Run one key was written once and then read by
\* two later nodes.
C23_Witness ==
    /\ RunReturned /\ runErr = NoError /\ runs = 2
    /\ \E q, r \in 1..Len(invoked) :
           /\ q < r
           /\ \E a \in 1..Len(invoked[q].args) : \E b \in 1..Len(invoked[r].args) :
                  invoked[q].args[a] = invoked[r].args[b]

\* the results with a release action among the non-error results of inv
ReleasableResults(inv) ==
    UNION {{v \in ResultsOf(inv, q) : HasRelease(v)} : q \in 1..Len(inv)}

\* C24: every Run, the first or a later one, works on the whole node list
\* from scratch.  It leaves the node list alone, keeps what the cleanup list
\* held and clears no key of the cache; it invokes the nodes of the resolved
\* order one after the other whatever the cache holds, stopping only at a
\* call that returns an error; and a Run that returns nil has invoked every
\* node, holds this Run's value for every key written, and has appended one
\* release action for each non-nil releasable result.
C24_RunFromScratch ==
    [][(last'.op = "Run" /\ runs' = runs + 1) =>
           /\ providers' = providers
           /\ Len(cleanups') >= Len(cleanups)
           /\ SubSeq(cleanups', 1, Len(cleanups)) = cleanups
           /\ \A k \in Keys : values[k] # NoValue => values'[k] # NoValue
           /\ runErr'.kind \notin ResolutionKinds =>
                  /\ IsPermutation(sorted', 1..Len(providers))
                  /\ Len(invoked') <= Len(sorted')
                  /\ \A q \in 1..Len(invoked') : invoked'[q].node = sorted'[q]
                  /\ Len(invoked') < Len(sorted') => runErr'.kind = "constructor"
           /\ runErr' = NoError =>
                  /\ Len(invoked') = Len(providers)
                  /\ \A q \in 1..Len(invoked') : \A v \in ResultsOf(invoked', q) :
                         values'[KeyOf(v)] = v /\ v.gen = runs'
                  /\ Len(cleanups') = Len(cleanups) + Cardinality(ReleasableResults(invoked'))
                  /\ \A v \in ReleasableResults(invoked') :
                         \E x \in (Len(cleanups) + 1)..Len(cleanups') : cleanups'[x] = v
      ]_vars

\* C24 witness: a second successful Run invoked every constructor again; the
\* cache holds the second Run's values and the cleanup list holds the release
\* actions of both Runs.
C24_Witness ==
    /\ RunReturned /\ runErr = NoError /\ runs = 2
    /\ Len(invoked) = Len(providers) /\ Len(providers) >= 3
    /\ values["A"] # NoValue /\ values["A"].gen = 2
    /\ \E x, y \in 1..Len(cleanups) :
           /\ x < y /\ cleanups[x].fn = cleanups[y].fn
           /\ cleanups[x].gen = 1 /\ cleanups[y].gen = 2

\* the calls among inv that returned no error, whose results execute stored
StoredCalls(inv) ==
    {q \in 1..Len(inv) :
        \A slot \in 1..Len(inv[q].results) : inv[q].results[slot].err = NoError}
\* v comes before w in construction order: an earlier call, or an earlier
\* return slot of the same call
StoredBefore(v, w) == v.ord < w.ord \/ (v.ord = w.ord /\ v.slot < w.slot)

\* C25: on every Run step, each result of a call that returned no error, nil
\* or not, is in the cache under its key; a node that consumes a key written
\* with nil is invoked with that nil value and the Run fails only through an
\* error some constructor returned; and what the step appends to the cleanup
\* list is exactly the non-nil results that have a release action, each once,
\* in call order and, within a call, in return-slot order.
C25_NilStoredNotReleased ==
    [][(last'.op = "Run" /\ runs' = runs + 1 /\ runErr'.kind \notin ResolutionKinds) =>
           LET inv == invoked'
               appended == SubSeq(cleanups', Len(cleanups) + 1, Len(cleanups'))
               kept == UNION {ResultsOf(inv, q) : q \in StoredCalls(inv)}
           IN  /\ \A v \in kept : values'[KeyOf(v)] = v
               /\ \A q \in 1..Len(inv) : \A a \in 1..Len(inv[q].args) :
                      \A v \in kept :
                          (v.isNil /\ KeyOf(v) = providers[inv[q].node].Inputs[a])
                              => inv[q].args[a] = v
               /\ runErr'.kind \in {"nil", "constructor"}
               /\ runErr'.kind = "constructor" => StoredCalls(inv) = 1..(Len(inv) - 1)
               /\ runErr' = NoError => StoredCalls(inv) = 1..Len(inv)
               /\ \A x \in 1..Len(appended) : appended[x] \in kept /\ HasRelease(appended[x])
               /\ \A v \in kept : HasRelease(v) => \E x \in 1..Len(appended) : appended[x] = v
               /\ \A x, y \in 1..Len(appended) : x < y => StoredBefore(appended[x], appended[y])
      ]_vars

\* C25 witness: a Run returned nil although one constructor returned a nil
\* value of a releasable type, which a later constructor received; the cache
\* holds the nil value and the cleanup list, which is not empty, does not.
C25_Witness ==
    /\ RunReturned /\ runErr = NoError /\ runs = 1
    /\ \E q \in 1..Len(invoked) : \E v \in ResultsOf(invoked, q) :
           /\ v.isNil /\ IsCleanable(v) /\ values[KeyOf(v)] = v
           /\ \E r \in (q + 1)..Len(invoked) : \E a \in 1..Len(invoked[r].args) :
                  invoked[r].args[a] = v
           /\ \A x \in 1..Len(cleanups) : cleanups[x] # v
    /\ Len(cleanups) >= 1

\* One call of a successful Run returned two values with a release action.
SlotOrderReached ==
    /\ RunReturned /\ runErr = NoError
    /\ \E x \in 1..(Len(cleanups) - 1) :
           /\ cleanups[x].ord = cleanups[x + 1].ord /\ cleanups[x].gen = cleanups[x + 1].gen
           /\ cleanups[x].slot < cleanups[x + 1].slot

\* C26: in the order Resolve returns, a node registered later comes before a
\* node registered earlier only when some node registered no later than the
\* earlier one (that one included) depends transitively on it; so two nodes
\* with no dependency path between them, the later of which no earlier node
\* depends on, keep their registration order.
C26_RegistrationOrderBreaksTies ==
    (last.op = "Resolve" /\ runErr = NoError) =>
        /\ \A a, b \in Nodes :
               (a < b /\ Position(sorted, b) < Position(sorted, a)) =>
                   \E k \in 1..a : Reaches(k, b)
        /\ \A a, b \in Nodes :
               (a < b /\ ~Reaches(a, b) /\ ~Reaches(b, a)
                      /\ ~\E k \in 1..(a - 1) : Reaches(k, b)) =>
                   Position(sorted, a) < Position(sorted, b)

\* C26 witness: Resolve returned an order in which a later node precedes an
\* earlier one that has no dependency path to it, because a node registered
\* before both depends on the later one; and two other independent nodes kept
\* their registration order.
C26_Witness ==
    /\ last.op = "Resolve" /\ runErr = NoError
    /\ \E k, a, b \in Nodes :
           /\ k < a /\ a < b
           /\ Reaches(k, b) /\ ~Reaches(a, b) /\ ~Reaches(b, a)
           /\ Position(sorted, b) < Position(sorted, a)
    /\ \E a, b \in Nodes :
           /\ 1 < a /\ a < b /\ ~Reaches(a, b) /\ ~Reaches(b, a)
           /\ ~\E k \in 1..(a - 1) : Reaches(k, b)
           /\ Position(sorted, a) < Position(sorted, b)

SameCycleReached ==
    /\ RunReturned /\ runs = 2 /\ runErr.kind = "cyclic dependence"
    /\ Len(runErr.labels) >= 3

\* the step is one call of the API method op
StepOf(op) == calls' = calls + 1 /\ last'.op = op

\* C28: no Add, WithContext or Run step, whether the call succeeds or fails,
\* calls a release action: the record of the release actions called so far
\* changes on Cleanup steps only.  An Add step invokes no constructor and
\* leaves the value cache, the cleanup list and the population targets as
\* they were.
C28_OnlyCleanupReleases ==
    [][/\ (StepOf("Add") \/ StepOf("WithContext") \/ StepOf("Run")) =>
              (allReleased' = allReleased /\ released' = released)
       /\ allReleased' # allReleased => StepOf("Cleanup")
       /\ StepOf("Add") =>
              /\ invoked' = invoked /\ runs' = runs
              /\ values' = values /\ cleanups' = cleanups /\ targets' = targets
      ]_vars

\* C28 witness: after a Run that registered release actions, a WithContext
\* and a further Add, no release action has been called.
C28_Witness ==
    /\ last.op = "Add" /\ calls = MaxCalls
    /\ runs = 1 /\ Len(invoked) >= 2 /\ Len(cleanups) >= 1
    /\ Len(parent) = 2
    /\ allReleased = <<>> /\ released = <<>>

\* C29: Resolve terminates on every node list: whatever the list, cyclic or
\* not, the call sooner or later returns.  The nesting of visit calls never
\* exceeds the number of nodes in either pass; the ordering pass only ever
\* runs on a graph without a cycle; and what the call returns is the order or
\* the error of Resolve.
C29_ResolveTerminates ==
    /\ <>(walk.pc = "done")
    /\ [](Len(walk.stack) <= Len(providers))
    /\ [](walk.pc = "sort" => ~HasCycle)
    /\ [](walk.pc = "done" =>
              (walk.sorted = Resolve(providers).sorted /\ walk.err = Resolve(providers).err))

\* C29 witness: Resolve returned an order for a list of MaxWalkNodes nodes in
\* which the ordering pass met an already visited node inside a visit, after
\* the cycle check had accepted the graph.
C29_Witness ==
    /\ walk.pc = "done" /\ walk.err = NoError
    /\ Len(providers) = MaxWalkNodes /\ IsPermutation(walk.sorted, Nodes)
    /\ \E i, j, m \in Nodes : i # j /\ DependsOn(i, m) /\ DependsOn(j, m)
    /\ \E q \in 1..Len(walk.sorted) : walk.sorted[q] # q

\* The cycle check returned with a cycle of at least two nodes.
CycleCheckReturned ==
    /\ walk.pc = "done" /\ walk.err.kind = "cyclic dependence"
    /\ Len(walk.err.labels) >= 3

====
